---- MODULE Spec2Model ----
(***************************************************************************)
(* Model of the customer-support classification core and its handlers:     *)
(*   layers/common/python/harassment_detector.py   detect_harassment       *)
(*   layers/common/python/sentiment_analyzer.py    analyze_sentiment       *)
(*   layers/common/python/handoff.py               build_handoff_context   *)
(*   functions/analyze/app.py     _calculate_combined_risk, lambda_handler *)
(*   functions/chat/app.py                         lambda_handler          *)
(*   layers/common/python/db.py    get_connection, get_cursor,             *)
(*                                 execute_insert                          *)
(*                                                                         *)
(* Representation.                                                         *)
(*   - A Python str is a sequence of Unicode code points (naturals).       *)
(*   - Optional[str] is a sequence holding zero or one str: <<>> is None.  *)
(*   - A float that the code only ever sets from the literals              *)
(*     0.5 .. 1.0 in steps of 0.05, adds 0.1 to, or rounds to 3 decimals   *)
(*     is kept in thousandths (0.85 is 850).  The binary rounding error of *)
(*     these sums is below 1e-15, far from the 0.0005 that round(x, 3)     *)
(*     needs to change a thousandth, so the thousandths are exact.         *)
(*   - A regular expression of the catalog is kept in expanded form: the   *)
(*     sequence of its alternatives, each alternative the sequence of the  *)
(*     literals that ".*" separates.  The catalog uses no other operator   *)
(*     than "|", grouping and ".*".  The regex source text itself, which   *)
(*     detect_harassment appends to matched_patterns, is named by the tag  *)
(*     in the field "pattern".                                             *)
(***************************************************************************)
EXTENDS Integers, Sequences, FiniteSets, TLC

VARIABLES
  text,         \* Optional[str]: the message handed to the classifiers
  harassment,   \* zero or one HarassmentResult: detect_harassment(text)
  sentiment,    \* zero or one SentimentResult: analyze_sentiment(text)
  excited,      \* zero or one SentimentResult: analyze_sentiment(text + "！！！！！")
  risk,         \* zero or one call of _calculate_combined_risk, with its arguments
  call,         \* zero or one call of build_handoff_context: its arguments
  handoff,      \* zero or one HandoffContext: what that call returned
  clock,        \* what datetime.utcnow() returns next
  endpoint,     \* the Lambda function invoked: "chat", "analyze", or "none"
  pc,           \* the statement of lambda_handler that runs next
  event,        \* Optional[dict]: what parse_body(event) returns
  api_key,      \* whether ANTHROPIC_API_KEY is set in the environment
  ai_response,  \* zero or one reply of the chat handler to the customer
  needs_handoff, \* the chat handler's local of this name
  ai_analysis,  \* zero or one dict: what _ai_enhanced_analysis returned
  db,           \* the rows committed to the database, oldest first
  response,     \* zero or one API Gateway response: what lambda_handler returned
  pool_used,    \* the connections getconn handed out and putconn has not taken back
  conn,         \* the local conn of the running get_connection: None or the connection
  step,         \* the statement of execute_insert and its context managers that runs next
  failing,      \* whether an exception is propagating through the running execute_insert
  txn,          \* the rows executed on conn and neither committed nor rolled back
  frames,       \* history: one record for every entry of get_connection
  calls         \* history: the calls of the components, each with arguments and result

\* The variables of a caller of the classifiers, of a caller of the handoff
\* builder, of an invocation of a Lambda function, of the connection pool
\* of db.py with the call of execute_insert that runs, and of the log of
\* the calls of the components.
classifierVars == <<text, harassment, sentiment, excited, risk>>
handoffVars == <<call, handoff, clock>>
apiVars == <<endpoint, pc, event, api_key, ai_response, needs_handoff, ai_analysis, db, response>>

poolVars == <<pool_used, conn, step, failing, txn, frames>>
logVars == <<calls>>

vars == <<classifierVars, handoffVars, apiVars, poolVars, logVars>>

\* ------------------------------------------------------------------------
\* Bounds of the model
\* ------------------------------------------------------------------------

\* A message is the concatenation of at most MaxFrags fragments.
MaxFrags == 2

\* ------------------------------------------------------------------------
\* Pattern catalog
\* ------------------------------------------------------------------------

\* CRITICAL_PATTERNS (harassment_detector.py): (regex, category) pairs in source order.
CRITICAL_PATTERNS == <<
  \* r"殺す|ころす|コロス"
  [pattern |-> "re_death_threat", category |-> "death_threat",
   alts |-> << << <<27578, 12377>> >>, << <<12371, 12429, 12377>> >>, << <<12467, 12525, 12473>> >> >>],
  \* r"死ね|しね|シネ"
  [pattern |-> "re_death_wish", category |-> "death_wish",
   alts |-> << << <<27515, 12397>> >>, << <<12375, 12397>> >>, << <<12471, 12493>> >> >>],
  \* r"爆破|放火|刺す"
  [pattern |-> "re_violence_threat", category |-> "violence_threat",
   alts |-> << << <<29190, 30772>> >>, << <<25918, 28779>> >>, << <<21050, 12377>> >> >>],
  \* r"訴え(る|てやる)|裁判|弁護士呼ぶ"
  [pattern |-> "re_legal_threat", category |-> "legal_threat",
   alts |-> << << <<35380, 12360, 12427>> >>, << <<35380, 12360, 12390, 12420, 12427>> >>, << <<35009, 21028>> >>, << <<24321, 35703, 22763, 21628, 12406>> >> >>],
  \* r"(上|部)長.*出せ.*殺|殺.*上.*出せ"
  [pattern |-> "re_escalation_threat", category |-> "escalation_threat",
   alts |-> << << <<19978, 38263>>, <<20986, 12379>>, <<27578>> >>, << <<37096, 38263>>, <<20986, 12379>>, <<27578>> >>, << <<27578>>, <<19978>>, <<20986, 12379>> >> >>]
>>

\* HIGH_PATTERNS (harassment_detector.py): (regex, category) pairs in source order.
HIGH_PATTERNS == <<
  \* r"バカ|ばか|馬鹿"
  [pattern |-> "re_insult_baka", category |-> "insult_baka",
   alts |-> << << <<12496, 12459>> >>, << <<12400, 12363>> >>, << <<39340, 40575>> >> >>],
  \* r"アホ|あほ|阿呆"
  [pattern |-> "re_insult_aho", category |-> "insult_aho",
   alts |-> << << <<12450, 12507>> >>, << <<12354, 12411>> >>, << <<38463, 21574>> >> >>],
  \* r"カス|かす|クズ|くず|屑"
  [pattern |-> "re_insult_kasu", category |-> "insult_kasu",
   alts |-> << << <<12459, 12473>> >>, << <<12363, 12377>> >>, << <<12463, 12474>> >>, << <<12367, 12378>> >>, << <<23633>> >> >>],
  \* r"ゴミ|ごみ|ゴミクズ"
  [pattern |-> "re_insult_gomi", category |-> "insult_gomi",
   alts |-> << << <<12468, 12511>> >>, << <<12372, 12415>> >>, << <<12468, 12511, 12463, 12474>> >> >>],
  \* r"キチガイ|きちがい|基地外"
  [pattern |-> "re_insult_kichigai", category |-> "insult_kichigai",
   alts |-> << << <<12461, 12481, 12460, 12452>> >>, << <<12365, 12385, 12364, 12356>> >>, << <<22522, 22320, 22806>> >> >>],
  \* r"ふざけるな|ふざけんな|ナメてる|舐めてる"
  [pattern |-> "re_contempt", category |-> "contempt",
   alts |-> << << <<12405, 12374, 12369, 12427, 12394>> >>, << <<12405, 12374, 12369, 12435, 12394>> >>, << <<12490, 12513, 12390, 12427>> >>, << <<33296, 12417, 12390, 12427>> >> >>],
  \* r"能無し|無能|役立たず|使えない"
  [pattern |-> "re_incompetence_insult", category |-> "incompetence_insult",
   alts |-> << << <<33021, 28961, 12375>> >>, << <<28961, 33021>> >>, << <<24441, 31435, 12383, 12378>> >>, << <<20351, 12360, 12394, 12356>> >> >>],
  \* r"ボケ|ぼけ|ドアホ"
  [pattern |-> "re_insult_boke", category |-> "insult_boke",
   alts |-> << << <<12508, 12465>> >>, << <<12412, 12369>> >>, << <<12489, 12450, 12507>> >> >>],
  \* r"クソ|くそ|糞"
  [pattern |-> "re_insult_kuso", category |-> "insult_kuso",
   alts |-> << << <<12463, 12477>> >>, << <<12367, 12381>> >>, << <<31966>> >> >>],
  \* r"ブス|デブ|ハゲ|キモい|きもい"
  [pattern |-> "re_appearance_insult", category |-> "appearance_insult",
   alts |-> << << <<12502, 12473>> >>, << <<12487, 12502>> >>, << <<12495, 12466>> >>, << <<12461, 12514, 12356>> >>, << <<12365, 12418, 12356>> >> >>]
>>

\* MEDIUM_PATTERNS (harassment_detector.py): (regex, category) pairs in source order.
MEDIUM_PATTERNS == <<
  \* r"今すぐ|すぐに|直ちに|至急"
  [pattern |-> "re_urgency_pressure", category |-> "urgency_pressure",
   alts |-> << << <<20170, 12377, 12368>> >>, << <<12377, 12368, 12395>> >>, << <<30452, 12385, 12395>> >>, << <<33267, 24613>> >> >>],
  \* r"責任.*取れ|責任者.*出せ|上の者"
  [pattern |-> "re_escalation_demand", category |-> "escalation_demand",
   alts |-> << << <<36012, 20219>>, <<21462, 12428>> >>, << <<36012, 20219, 32773>>, <<20986, 12379>> >>, << <<19978, 12398, 32773>> >> >>],
  \* r"金.*返せ|弁償しろ|賠償"
  [pattern |-> "re_compensation_demand", category |-> "compensation_demand",
   alts |-> << << <<37329>>, <<36820, 12379>> >>, << <<24321, 20767, 12375, 12429>> >>, << <<36064, 20767>> >> >>],
  \* r"(SNS|ネット|Twitter|X).*晒す|拡散"
  [pattern |-> "re_social_media_threat", category |-> "social_media_threat",
   alts |-> << << <<83, 78, 83>>, <<26194, 12377>> >>, << <<12493, 12483, 12488>>, <<26194, 12377>> >>, << <<84, 119, 105, 116, 116, 101, 114>>, <<26194, 12377>> >>, << <<88>>, <<26194, 12377>> >>, << <<25313, 25955>> >> >>],
  \* r"二度と.*使わない|解約.*してやる"
  [pattern |-> "re_service_threat", category |-> "service_threat",
   alts |-> << << <<20108, 24230, 12392>>, <<20351, 12431, 12394, 12356>> >>, << <<35299, 32004>>, <<12375, 12390, 12420, 12427>> >> >>],
  \* r"いい加減に|何回.*言え|何度も"
  [pattern |-> "re_frustration_repeat", category |-> "frustration_repeat",
   alts |-> << << <<12356, 12356, 21152, 28187, 12395>> >>, << <<20309, 22238>>, <<35328, 12360>> >>, << <<20309, 24230, 12418>> >> >>]
>>

\* LOW_PATTERNS (harassment_detector.py): (regex, category) pairs in source order.
LOW_PATTERNS == <<
  \* r"困る|困って|不便"
  [pattern |-> "re_frustration", category |-> "frustration",
   alts |-> << << <<22256, 12427>> >>, << <<22256, 12387, 12390>> >>, << <<19981, 20415>> >> >>],
  \* r"遅い|遅すぎ|待たされ"
  [pattern |-> "re_complaint_slow", category |-> "complaint_slow",
   alts |-> << << <<36933, 12356>> >>, << <<36933, 12377, 12366>> >>, << <<24453, 12383, 12373, 12428>> >> >>],
  \* r"分かりにくい|説明.*ない|不親切"
  [pattern |-> "re_complaint_unclear", category |-> "complaint_unclear",
   alts |-> << << <<20998, 12363, 12426, 12395, 12367, 12356>> >>, << <<35500, 26126>>, <<12394, 12356>> >>, << <<19981, 35242, 20999>> >> >>]
>>

\* Every category label of the catalog in the order Python's sorted() gives them.
SortedCategories == <<
  "appearance_insult", "compensation_demand", "complaint_slow", "complaint_unclear",
  "contempt", "death_threat", "death_wish", "escalation_demand",
  "escalation_threat", "frustration", "frustration_repeat", "incompetence_insult",
  "insult_aho", "insult_baka", "insult_boke", "insult_gomi",
  "insult_kasu", "insult_kichigai", "insult_kuso", "legal_threat",
  "service_threat", "social_media_threat", "urgency_pressure", "violence_threat"
>>

POSITIVE_KEYWORDS == <<
  <<12354, 12426, 12364, 12392, 12358>>,   \* ありがとう
  <<21161, 12363, 12426>>,   \* 助かり
  <<24863, 35613>>,   \* 感謝
  <<23305, 12375, 12356>>,   \* 嬉しい
  <<12358, 12428, 12375, 12356>>,   \* うれしい
  <<32032, 26228, 12425, 12375, 12356>>,   \* 素晴らしい
  <<12377, 12400, 12425, 12375, 12356>>,   \* すばらしい
  <<26368, 39640>>,   \* 最高
  <<23436, 29863>>,   \* 完璧
  <<33391, 12356>>,   \* 良い
  <<12424, 12356>>,   \* よい
  <<12356, 12356>>,   \* いい
  <<19969, 23527>>,   \* 丁寧
  <<35242, 20999>>,   \* 親切
  <<36805, 36895>>,   \* 迅速
  <<20415, 21033>>,   \* 便利
  <<28288, 36275>>,   \* 満足
  <<35299, 27770>>,   \* 解決
  <<12469, 12531, 12461, 12517, 12540>>,   \* サンキュー
  <<31070, 23550, 24540>>,   \* 神対応
  <<103, 114, 101, 97, 116>>,   \* great
  <<116, 104, 97, 110, 107, 115>>,   \* thanks
  <<116, 104, 97, 110, 107, 32, 121, 111, 117>>,   \* thank you
  <<101, 120, 99, 101, 108, 108, 101, 110, 116>>,   \* excellent
  <<103, 111, 111, 100>>,   \* good
  <<112, 101, 114, 102, 101, 99, 116>>   \* perfect
>>

NEGATIVE_KEYWORDS == <<
  <<19981, 28288>>,   \* 不満
  <<19981, 20415>>,   \* 不便
  <<27531, 24565>>,   \* 残念
  <<12364, 12387, 12363, 12426>>,   \* がっかり
  <<22256, 12427>>,   \* 困る
  <<22256, 12387, 12390>>,   \* 困って
  <<24515, 37197>>,   \* 心配
  <<19981, 23433>>,   \* 不安
  <<38754, 20498>>,   \* 面倒
  <<23244>>,   \* 嫌
  <<12356, 12420, 12384>>,   \* いやだ
  <<12480, 12513>>,   \* ダメ
  <<12384, 12417>>,   \* だめ
  <<21839, 38988>>,   \* 問題
  <<20351, 12360, 12394, 12356>>,   \* 使えない
  <<20998, 12363, 12425, 12394, 12356>>,   \* 分からない
  <<12456, 12521, 12540>>,   \* エラー
  <<12496, 12464>>,   \* バグ
  <<38556, 23475>>,   \* 障害
  <<36933, 12356>>,   \* 遅い
  <<25913, 21892>>,   \* 改善
  <<33510, 24773>>,   \* 苦情
  <<12463, 12524, 12540, 12512>>   \* クレーム
>>

ANGER_KEYWORDS == <<
  <<24594, 12426>>,   \* 怒り
  <<24594, 12387, 12390>>,   \* 怒って
  <<28608, 24594>>,   \* 激怒
  <<12405, 12374, 12369, 12427, 12394>>,   \* ふざけるな
  <<12405, 12374, 12369, 12435, 12394>>,   \* ふざけんな
  <<12356, 12356, 21152, 28187, 12395, 12375, 12429>>,   \* いい加減にしろ
  <<12356, 12356, 21152, 28187, 12395, 12375, 12390>>,   \* いい加減にして
  <<35377, 12373, 12394, 12356>>,   \* 許さない
  <<35377, 12379, 12394, 12356>>,   \* 許せない
  <<12354, 12426, 12360, 12394, 12356>>,   \* ありえない
  <<20449, 12376, 12425, 12428, 12394, 12356>>,   \* 信じられない
  <<26368, 24746>>,   \* 最悪
  <<26368, 20302>>,   \* 最低
  <<37239, 12356>>,   \* 酷い
  <<12402, 12393, 12356>>,   \* ひどい
  <<12463, 12477>>,   \* クソ
  <<12367, 12381>>,   \* くそ
  <<12496, 12459>>,   \* バカ
  <<12400, 12363>>,   \* ばか
  <<12450, 12507>>,   \* アホ
  <<27515, 12397>>,   \* 死ね
  <<27578, 12377>>,   \* 殺す
  <<12461, 12524>>,   \* キレ
  <<12365, 12428>>,   \* きれ
  <<12502, 12481, 12462, 12524>>,   \* ブチギレ
  <<12502, 12481, 20999, 12428>>,   \* ブチ切れ
  <<33145, 12364, 31435, 12388>>,   \* 腹が立つ
  <<33145, 31435, 12388>>,   \* 腹立つ
  <<12416, 12363, 12388, 12367>>,   \* むかつく
  <<12512, 12459, 12388, 12367>>,   \* ムカつく
  <<12452, 12521, 12452, 12521>>,   \* イライラ
  <<33499, 12293>>,   \* 苛々
  <<38957, 12395, 12367, 12427>>,   \* 頭にくる
  <<12394, 12417, 12390, 12427>>,   \* なめてる
  <<12490, 12513, 12390, 12427>>,   \* ナメてる
  <<33296, 12417, 12390, 12427>>,   \* 舐めてる
  <<12468, 12511>>,   \* ゴミ
  <<12459, 12473>>   \* カス
>>

\* ------------------------------------------------------------------------
\* Messages
\* ------------------------------------------------------------------------

\* The sentences messages are built from: inputs of the repository's tests
\* (tests/test_harassment_detector.py, tests/test_sentiment_analyzer.py), and
\* four more: "!!!" (three ASCII marks), " \n" (whitespace only),
\* "twitter..." (the test's "Twitter..." in lower case, which the regex matches
\* only through re.IGNORECASE) and an English sentence in mixed case.
Fragments == <<
  \* 'バカ！殺すぞ！困る！'
  <<12496, 12459, 65281, 27578, 12377, 12382, 65281, 22256, 12427, 65281>>,
  \* 'すごく困っているんです'
  <<12377, 12372, 12367, 22256, 12387, 12390, 12356, 12427, 12435, 12391, 12377>>,
  \* 'ふざけるな！最悪！許せない！ムカつく！'
  <<12405, 12374, 12369, 12427, 12394, 65281, 26368, 24746, 65281, 35377, 12379, 12394, 12356, 65281, 12512, 12459, 12388, 12367, 65281>>,
  \* '不満です。残念な対応でした。がっかりです。'
  <<19981, 28288, 12391, 12377, 12290, 27531, 24565, 12394, 23550, 24540, 12391, 12375, 12383, 12290, 12364, 12387, 12363, 12426, 12391, 12377, 12290>>,
  \* '最悪'
  <<26368, 24746>>,
  \* '!!!'
  <<33, 33, 33>>,
  \* ' \n'
  <<32, 10>>,
  \* 'twitterで晒すからな'
  <<116, 119, 105, 116, 116, 101, 114, 12391, 26194, 12377, 12363, 12425, 12394>>,
  \* 'エラーが出て使えません。バグだと思います。'
  <<12456, 12521, 12540, 12364, 20986, 12390, 20351, 12360, 12414, 12379, 12435, 12290, 12496, 12464, 12384, 12392, 24605, 12356, 12414, 12377, 12290>>,
  \* 'いい加減にしろ！腹が立つ！'
  <<12356, 12356, 21152, 28187, 12395, 12375, 12429, 65281, 33145, 12364, 31435, 12388, 65281>>,
  \* '素晴らしいサービスですね。完璧です。'
  <<32032, 26228, 12425, 12375, 12356, 12469, 12540, 12499, 12473, 12391, 12377, 12397, 12290, 23436, 29863, 12391, 12377, 12290>>,
  \* 'ありがとう、でも少し不満もあります'
  <<12354, 12426, 12364, 12392, 12358, 12289, 12391, 12418, 23569, 12375, 19981, 28288, 12418, 12354, 12426, 12414, 12377>>,
  \* '訴えてやるからな'
  <<35380, 12360, 12390, 12420, 12427, 12363, 12425, 12394>>,
  \* 'Thank you! GOOD, Perfect.'
  <<84, 104, 97, 110, 107, 32, 121, 111, 117, 33, 32, 71, 79, 79, 68, 44, 32, 80, 101, 114, 102, 101, 99, 116, 46>>
>>

\* ------------------------------------------------------------------------
\* Strings
\* ------------------------------------------------------------------------

None == <<>>
Some(s) == <<s>>

\* str.lower() and re.IGNORECASE on one code point.  The messages of the
\* model hold ASCII letters, kana, kanji and punctuation: only A-Z fold.
Lower(c) == IF c >= 65 /\ c <= 90 THEN c + 32 ELSE c

\* The code points str.strip() removes (str.isspace()).
Whitespace ==
  {9, 10, 11, 12, 13, 28, 29, 30, 31, 32, 133, 160, 5760,
   8232, 8233, 8239, 8287, 12288} \cup (8192..8202)

\* Mutant: the test without strip(), `not text`.
IsBlank_no_strip(t) == t = None \/ Len(t[1]) = 0

\* `not text or not text.strip()`
IsBlank(t) == t = None \/ \A i \in 1..Len(t[1]) : t[1][i] \in Whitespace

\* str.lower()
LowerStr(s) == [i \in 1..Len(s) |-> Lower(s[i])]

\* lit occurs in s at position i.
OccursAt(s, lit, i) == \A j \in 1..Len(lit) : s[i + j - 1] = lit[j]

\* `lit in s`
Contains(s, lit) == \E i \in 1..(Len(s) - Len(lit) + 1) : OccursAt(s, lit, i)

\* text.count(ch)
Count(s, ch) == Cardinality({i \in 1..Len(s) : s[i] = ch})

\* One alternative of a regex against the lower-cased text s: its literals
\* pieces[k..] occur in s in this order at or after position from; the ".*"
\* between two literals matches any run of characters that holds no newline.
RECURSIVE MatchPieces(_, _, _, _)
MatchPieces(s, pieces, k, from) ==
  IF k > Len(pieces) THEN TRUE
  ELSE LET lit == LowerStr(pieces[k]) IN
       \E i \in from..(Len(s) - Len(lit) + 1) :
         /\ OccursAt(s, lit, i)
         /\ (k = 1 \/ \A j \in from..(i - 1) : s[j] # 10)
         /\ MatchPieces(s, pieces, k + 1, i + Len(lit))

\* re.search(pattern, text, re.IGNORECASE): letter case is ignored on both sides.
re_search(entry, s) ==
  LET folded == LowerStr(s) IN
  \E a \in 1..Len(entry.alts) : MatchPieces(folded, entry.alts[a], 1, 1)

\* ------------------------------------------------------------------------
\* harassment_detector.py
\* ------------------------------------------------------------------------

Severity == {"critical", "high", "medium", "low", "none"}

severity_scores == [critical |-> 4, high |-> 3, medium |-> 2, low |-> 1, none |-> 0]

\* The list the outer loop walks, flattened: every pattern with the
\* severity of its group, critical group first.
Tagged(patterns, severity) ==
  [i \in 1..Len(patterns) |-> [entry |-> patterns[i], severity |-> severity]]

PatternGroups ==
  Tagged(CRITICAL_PATTERNS, "critical") \o Tagged(HIGH_PATTERNS, "high")
    \o Tagged(MEDIUM_PATTERNS, "medium") \o Tagged(LOW_PATTERNS, "low")

\* Mutant: the assignment without the comparison of the scores.
RaiseSeverity_unconditional(severity, max_severity) == severity

\* max_severity after a pattern of the given severity matched.
RaiseSeverity(severity, max_severity) ==
  IF severity_scores[severity] > severity_scores[max_severity]
  THEN severity ELSE max_severity

\* The two nested loops from pattern k on; acc holds the three locals.
RECURSIVE Scan(_, _, _)
Scan(s, k, acc) ==
  IF k > Len(PatternGroups) THEN acc
  ELSE LET g == PatternGroups[k] IN
       IF re_search(g.entry, s)
       THEN Scan(s, k + 1,
              [matched_patterns |-> Append(acc.matched_patterns, g.entry.pattern),
               categories |-> acc.categories \cup {g.entry.category},
               max_severity |-> RaiseSeverity(g.severity, acc.max_severity)])
       ELSE Scan(s, k + 1, acc)

\* Mutant: every severity but none counts as harassment.
IsHarassment_any(max_severity) == max_severity # "none"

IsHarassment(max_severity) == max_severity \in {"critical", "high", "medium"}

\* Mutant: the middle step ends at 2 matches (< 3 for <= 3).
MatchConfidence_lt3(match_count) ==
  IF match_count = 0 THEN 900
  ELSE IF match_count = 1 THEN 700
  ELSE IF match_count < 3 THEN 850
  ELSE 950

\* Confidence from the number of matches, in thousandths.
MatchConfidence(match_count) ==
  IF match_count = 0 THEN 900
  ELSE IF match_count = 1 THEN 700
  ELSE IF match_count <= 3 THEN 850
  ELSE 950

\* The five canned texts, named by tag.
recommendations ==
  [critical |-> "rec_escalate_now", high |-> "rec_prepare_handover",
   medium |-> "rec_stay_calm", low |-> "rec_continue_with_empathy",
   none |-> "rec_continue"]

detect_harassment(t) ==
  IF IsBlank(t)
  THEN [is_harassment |-> FALSE, severity |-> "none", confidence |-> 1000,
        matched_patterns |-> <<>>, categories |-> <<>>,
        recommendation |-> "rec_no_input"]
  ELSE LET acc == Scan(t[1], 1, [matched_patterns |-> <<>>, categories |-> {},
                                 max_severity |-> "none"])
       IN [is_harassment |-> IsHarassment(acc.max_severity),
           severity |-> acc.max_severity,
           confidence |-> MatchConfidence(Len(acc.matched_patterns)),
           matched_patterns |-> acc.matched_patterns,
           categories |-> SelectSeq(SortedCategories, LAMBDA c : c \in acc.categories),
           recommendation |-> recommendations[acc.max_severity]]

\* ------------------------------------------------------------------------
\* sentiment_analyzer.py
\* ------------------------------------------------------------------------

Sentiment == {"positive", "neutral", "negative", "anger"}

_count_matches(s, keywords) ==
  LET text_lower == LowerStr(s)
      found == SelectSeq(keywords, LAMBDA kw : Contains(text_lower, LowerStr(kw)))
  IN [count |-> Len(found), found |-> found]

Min(a, b) == IF a <= b THEN a ELSE b

\* Mutant: the fourth rule reads neg_count >= pos_count, so a tie is negative.
Dominant_tie_negative(pos_count, neg_count, ang_count) ==
  IF ang_count >= 2 \/ (ang_count >= 1 /\ neg_count >= 1)
  THEN [dominant |-> "anger", confidence |-> Min(950, 600 + ang_count * 100)]
  ELSE IF ang_count >= 1
  THEN [dominant |-> "anger", confidence |-> 700]
  ELSE IF neg_count > pos_count /\ neg_count >= 2
  THEN [dominant |-> "negative", confidence |-> Min(900, 500 + neg_count * 100)]
  ELSE IF neg_count >= pos_count /\ neg_count > 0
  THEN [dominant |-> "negative", confidence |-> 600]
  ELSE IF pos_count > neg_count /\ pos_count >= 2
  THEN [dominant |-> "positive", confidence |-> Min(900, 500 + pos_count * 100)]
  ELSE IF pos_count > 0
  THEN [dominant |-> "positive", confidence |-> 600]
  ELSE [dominant |-> "neutral", confidence |-> 800]

\* Mutant: the strong-positive rule is tried before the anger rules.
Dominant_positive_first(pos_count, neg_count, ang_count) ==
  IF pos_count > neg_count /\ pos_count >= 2
  THEN [dominant |-> "positive", confidence |-> Min(900, 500 + pos_count * 100)]
  ELSE IF ang_count >= 2 \/ (ang_count >= 1 /\ neg_count >= 1)
  THEN [dominant |-> "anger", confidence |-> Min(950, 600 + ang_count * 100)]
  ELSE IF ang_count >= 1
  THEN [dominant |-> "anger", confidence |-> 700]
  ELSE IF neg_count > pos_count /\ neg_count >= 2
  THEN [dominant |-> "negative", confidence |-> Min(900, 500 + neg_count * 100)]
  ELSE IF neg_count > pos_count
  THEN [dominant |-> "negative", confidence |-> 600]
  ELSE IF pos_count > 0
  THEN [dominant |-> "positive", confidence |-> 600]
  ELSE [dominant |-> "neutral", confidence |-> 800]

\* The decision tree: the dominant label and its confidence in thousandths.
Dominant(pos_count, neg_count, ang_count) ==
  IF ang_count >= 2 \/ (ang_count >= 1 /\ neg_count >= 1)
  THEN [dominant |-> "anger", confidence |-> Min(950, 600 + ang_count * 100)]
  ELSE IF ang_count >= 1
  THEN [dominant |-> "anger", confidence |-> 700]
  ELSE IF neg_count > pos_count /\ neg_count >= 2
  THEN [dominant |-> "negative", confidence |-> Min(900, 500 + neg_count * 100)]
  ELSE IF neg_count > pos_count
  THEN [dominant |-> "negative", confidence |-> 600]
  ELSE IF pos_count > neg_count /\ pos_count >= 2
  THEN [dominant |-> "positive", confidence |-> Min(900, 500 + pos_count * 100)]
  ELSE IF pos_count > 0
  THEN [dominant |-> "positive", confidence |-> 600]
  ELSE [dominant |-> "neutral", confidence |-> 800]

\* The condition of the punctuation booster.
Boosted(exclamation_count, dominant) ==
  exclamation_count >= 3 /\ dominant \in {"negative", "anger"}

\* round(n / d, 3) in thousandths, for n >= 0 and d > 0: the nearest
\* thousandth.  A quotient exactly halfway between two thousandths needs
\* pos + neg + ang + 1 >= 16; there the binary float decides the direction
\* and this operator (to the even thousandth) may differ by 0.001.  No
\* message of the model holds that many keywords.
Round3(n, d) ==
  LET q == (1000 * n) \div d
      r == (1000 * n) % d
  IN IF 2 * r > d THEN q + 1
     ELSE IF 2 * r < d THEN q
     ELSE IF q % 2 = 0 THEN q ELSE q + 1

\* Mutant: score_total is summed before the booster adds to the anger score.
Scores_total_before_boost(pos_count, neg_count, ang_count, boosted) ==
  LET total == pos_count + neg_count + ang_count + 1
      pos_score == 10 * pos_count
      neg_score == 10 * neg_count
      ang_score == 10 * ang_count + (IF boosted THEN total ELSE 0)
      neu_score == 10
      score_total == pos_score + neg_score + 10 * ang_count + neu_score
  IN [positive |-> Round3(pos_score, score_total),
      neutral |-> Round3(neu_score, score_total),
      negative |-> Round3(neg_score, score_total),
      anger |-> Round3(ang_score, score_total)]

\* The four normalised scores.  The raw scores are count / total, and the
\* booster adds 0.1 to the raw anger score; they are kept here as numerators
\* over the common denominator 10 * total.
Scores(pos_count, neg_count, ang_count, boosted) ==
  LET total == pos_count + neg_count + ang_count + 1
      pos_score == 10 * pos_count
      neg_score == 10 * neg_count
      ang_score == 10 * ang_count + (IF boosted THEN total ELSE 0)
      neu_score == 10
      score_total == pos_score + neg_score + ang_score + neu_score
  IN IF score_total > 0
     THEN [positive |-> Round3(pos_score, score_total),
           neutral |-> Round3(neu_score, score_total),
           negative |-> Round3(neg_score, score_total),
           anger |-> Round3(ang_score, score_total)]
     ELSE [positive |-> 0, neutral |-> 1000, negative |-> 0, anger |-> 0]

\* Mutant: only the ASCII mark is counted.
ExclamationCount_ascii(s) == Count(s, 33)

\* text.count("!") + text.count("！")
ExclamationCount(s) == Count(s, 33) + Count(s, 65281)

\* Mutant: a negative result raises the alert too.
TriggerAlert_negative(dominant) == dominant \in {"anger", "negative"}

TriggerAlert(dominant) == dominant = "anger"

analyze_sentiment(t) ==
  IF IsBlank(t)
  THEN [sentiment |-> "neutral", confidence |-> 1000,
        scores |-> [positive |-> 0, neutral |-> 1000, negative |-> 0, anger |-> 0],
        trigger_alert |-> FALSE, keywords_found |-> <<>>]
  ELSE LET pos == _count_matches(t[1], POSITIVE_KEYWORDS)
           neg == _count_matches(t[1], NEGATIVE_KEYWORDS)
           ang == _count_matches(t[1], ANGER_KEYWORDS)
           tree == Dominant(pos.count, neg.count, ang.count)
           exclamation_count == ExclamationCount(t[1])
           boosted == Boosted(exclamation_count, tree.dominant)
       IN [sentiment |-> tree.dominant,
           confidence |-> IF boosted THEN Min(980, tree.confidence + 100)
                          ELSE tree.confidence,
           scores |-> Scores(pos.count, neg.count, ang.count, boosted),
           trigger_alert |-> TriggerAlert(tree.dominant),
           keywords_found |-> pos.found \o neg.found \o ang.found]

\* ------------------------------------------------------------------------
\* functions/analyze/app.py
\* ------------------------------------------------------------------------

\* Mutant: a positive message on a low-severity finding is rated high.
risk_matrix_low_positive_high ==
  <<"critical", "anger">> :> "critical" @@ <<"critical", "negative">> :> "critical" @@
  <<"critical", "neutral">> :> "critical" @@ <<"critical", "positive">> :> "high" @@
  <<"high", "anger">> :> "critical" @@ <<"high", "negative">> :> "high" @@
  <<"high", "neutral">> :> "high" @@ <<"high", "positive">> :> "medium" @@
  <<"medium", "anger">> :> "high" @@ <<"medium", "negative">> :> "medium" @@
  <<"medium", "neutral">> :> "medium" @@ <<"medium", "positive">> :> "low" @@
  <<"low", "anger">> :> "medium" @@ <<"low", "negative">> :> "medium" @@
  <<"low", "neutral">> :> "low" @@ <<"low", "positive">> :> "high" @@
  <<"none", "anger">> :> "medium" @@ <<"none", "negative">> :> "low" @@
  <<"none", "neutral">> :> "none" @@ <<"none", "positive">> :> "none"

risk_matrix ==
  <<"critical", "anger">> :> "critical" @@ <<"critical", "negative">> :> "critical" @@
  <<"critical", "neutral">> :> "critical" @@ <<"critical", "positive">> :> "high" @@
  <<"high", "anger">> :> "critical" @@ <<"high", "negative">> :> "high" @@
  <<"high", "neutral">> :> "high" @@ <<"high", "positive">> :> "medium" @@
  <<"medium", "anger">> :> "high" @@ <<"medium", "negative">> :> "medium" @@
  <<"medium", "neutral">> :> "medium" @@ <<"medium", "positive">> :> "low" @@
  <<"low", "anger">> :> "medium" @@ <<"low", "negative">> :> "medium" @@
  <<"low", "neutral">> :> "low" @@ <<"low", "positive">> :> "low" @@
  <<"none", "anger">> :> "medium" @@ <<"none", "negative">> :> "low" @@
  <<"none", "neutral">> :> "none" @@ <<"none", "positive">> :> "none"

\* Mutant: the default of the lookup is "none".
_calculate_combined_risk_default_none(harassment_severity, sentiment_label) ==
  IF <<harassment_severity, sentiment_label>> \in DOMAIN risk_matrix
  THEN risk_matrix[<<harassment_severity, sentiment_label>>]
  ELSE "none"

\* Mutant: the anger column is read as the negative column.
_calculate_combined_risk_anger_as_negative(harassment_severity, sentiment_label) ==
  LET label == IF sentiment_label = "anger" THEN "negative" ELSE sentiment_label
  IN IF <<harassment_severity, label>> \in DOMAIN risk_matrix
     THEN risk_matrix[<<harassment_severity, label>>]
     ELSE "low"

\* risk_matrix.get((harassment_severity, sentiment), "low")
_calculate_combined_risk(harassment_severity, sentiment_label) ==
  IF <<harassment_severity, sentiment_label>> \in DOMAIN risk_matrix
  THEN risk_matrix[<<harassment_severity, sentiment_label>>]
  ELSE "low"

\* ------------------------------------------------------------------------
\* layers/common/python/handoff.py
\*
\* A message is a record [role, content]; content is a str.  The fields
\* conversation_id and customer_name are opaque values handed through.
\* ------------------------------------------------------------------------

\* s holds lit at position i, letter case ignored (re.IGNORECASE).
StartsAt(s, lit, i) ==
  /\ i + Len(lit) - 1 <= Len(s)
  /\ \A j \in 1..Len(lit) : Lower(s[i + j - 1]) = Lower(lit[j])

\* The first position at or after i that holds no whitespace: where a
\* greedy "\s*" started at i stops.
SkipSpace(s, i) ==
  CHOOSE j \in i..(Len(s) + 1) :
    /\ \A k \in i..(j - 1) : s[k] \in Whitespace
    /\ j <= Len(s) => s[j] \notin Whitespace

\* [A-Z0-9\-] under re.IGNORECASE: ASCII letters of both cases, digits, "-".
TokenChar(c) == (c >= 48 /\ c <= 57) \/ (Lower(c) >= 97 /\ Lower(c) <= 122) \/ c = 45

\* Where a greedy "[A-Z0-9\-]*" started at i stops.
TokenEnd(s, i) ==
  CHOOSE j \in i..(Len(s) + 1) :
    /\ \A k \in i..(j - 1) : TokenChar(s[k])
    /\ j <= Len(s) => ~TokenChar(s[j])

\* (?:注文番号|オーダー|order\s*(?:number|#|no\.?)) at position i: the position
\* after it, or 0 when it does not match there.  The alternatives start with
\* different characters, so at most one of them can match.
OrderPrefixEnd(s, i) ==
  IF StartsAt(s, <<27880, 25991, 30058, 21495>>, i) THEN i + 4
  ELSE IF StartsAt(s, <<12458, 12540, 12480, 12540>>, i) THEN i + 4
  ELSE IF StartsAt(s, <<111, 114, 100, 101, 114>>, i)
  THEN LET j == SkipSpace(s, i + 5)
       IN IF StartsAt(s, <<110, 117, 109, 98, 101, 114>>, j) THEN j + 6
          ELSE IF StartsAt(s, <<35>>, j) THEN j + 1
          ELSE IF StartsAt(s, <<110, 111>>, j)
          THEN (IF StartsAt(s, <<46>>, j + 2) THEN j + 3 ELSE j + 2)
          ELSE 0
  ELSE 0

\* order_pattern at position i: <<first, last + 1>> of the captured group,
\* or <<>> when the pattern does not match at i.  Whitespace, the two colons
\* and the group's characters are disjoint, so the greedy match is the only one.
OrderMatchAt(s, i) ==
  LET p == OrderPrefixEnd(s, i) IN
  IF p = 0 THEN <<>>
  ELSE LET a == SkipSpace(s, p)
           b == IF a <= Len(s) /\ s[a] \in {58, 65306} THEN a + 1 ELSE a
           c == SkipSpace(s, b)
           e == TokenEnd(s, c)
       IN IF e = c THEN <<>> ELSE <<c, e>>

\* re.findall(order_pattern, text, re.IGNORECASE) from position i on: the
\* captured groups of the non-overlapping matches, left to right.
RECURSIVE FindOrders(_, _)
FindOrders(s, i) ==
  LET starts == {j \in i..Len(s) : OrderMatchAt(s, j) # <<>>} IN
  IF starts = {} THEN <<>>
  ELSE LET j == CHOOSE j \in starts : \A k \in starts : j <= k
           found == OrderMatchAt(s, j)
       IN <<SubSeq(s, found[1], found[2] - 1)>> \o FindOrders(s, found[2])

\* a < b for two str: the order of the code points, a proper prefix first.
StrLess(a, b) ==
  \E k \in 1..(Min(Len(a), Len(b)) + 1) :
    /\ \A j \in 1..(k - 1) : a[j] = b[j]
    /\ IF k > Len(a) THEN k <= Len(b)
       ELSE k <= Len(b) /\ a[k] < b[k]

\* sorted(found) of a set of str.
RECURSIVE Sorted(_)
Sorted(found) ==
  IF found = {} THEN <<>>
  ELSE LET first == CHOOSE x \in found : \A y \in found \ {x} : StrLess(x, y)
       IN <<first>> \o Sorted(found \ {first})

_extract_order_numbers(messages) ==
  Sorted(UNION {{n[k] : k \in DOMAIN n} : n \in {FindOrders(messages[i].content, 1) : i \in DOMAIN messages}})

\* issue_patterns of _extract_issues in dict order.  The category labels are
\* Japanese strings; each is named here by a tag:
\*   shipping  "配送問題"
\*   quality   "品質問題"
\*   refund    "返品・返金"
\*   account   "アカウント問題"
\*   billing   "料金問題"
\*   handling  "対応不満"
issue_patterns == <<
  \* "配送問題": r"届かない|届いていない|配送.*遅|配達.*来ない|発送.*まだ"
  [category |-> "shipping",
   patterns |-> << << << <<23626, 12363, 12394, 12356>> >>, << <<23626, 12356, 12390, 12356, 12394, 12356>> >>, << <<37197, 36865>>, <<36933>> >>, << <<37197, 36948>>, <<26469, 12394, 12356>> >>, << <<30330, 36865>>, <<12414, 12384>> >> >> >>],
  \* "品質問題": r"壊れ|破損|不良|傷|汚れ|欠陥|故障|動かない"
  [category |-> "quality",
   patterns |-> << << << <<22730, 12428>> >>, << <<30772, 25613>> >>, << <<19981, 33391>> >>, << <<20663>> >>, << <<27738, 12428>> >>, << <<27424, 38501>> >>, << <<25925, 38556>> >>, << <<21205, 12363, 12394, 12356>> >> >> >>],
  \* "返品・返金": r"返品|返金|キャンセル|取り消し|払い戻し"
  [category |-> "refund",
   patterns |-> << << << <<36820, 21697>> >>, << <<36820, 37329>> >>, << <<12461, 12515, 12531, 12475, 12523>> >>, << <<21462, 12426, 28040, 12375>> >>, << <<25173, 12356, 25147, 12375>> >> >> >>],
  \* "アカウント問題": r"ログイン.*できない|パスワード|アカウント.*ロック"
  [category |-> "account",
   patterns |-> << << << <<12525, 12464, 12452, 12531>>, <<12391, 12365, 12394, 12356>> >>, << <<12497, 12473, 12527, 12540, 12489>> >>, << <<12450, 12459, 12454, 12531, 12488>>, <<12525, 12483, 12463>> >> >> >>],
  \* "料金問題": r"請求.*おかしい|二重.*課金|料金.*違う|値段.*間違"
  [category |-> "billing",
   patterns |-> << << << <<35531, 27714>>, <<12362, 12363, 12375, 12356>> >>, << <<20108, 37325>>, <<35506, 37329>> >>, << <<26009, 37329>>, <<36949, 12358>> >>, << <<20516, 27573>>, <<38291, 36949>> >> >> >>],
  \* "対応不満": r"対応.*悪い|何度も.*問い合わせ|たらい回し|返事.*ない"
  [category |-> "handling",
   patterns |-> << << << <<23550, 24540>>, <<24746, 12356>> >>, << <<20309, 24230, 12418>>, <<21839, 12356, 21512, 12431, 12379>> >>, << <<12383, 12425, 12356, 22238, 12375>> >>, << <<36820, 20107>>, <<12394, 12356>> >> >> >>]
>>

\* One alternative of a regex against s, letter case kept: as MatchPieces,
\* for re.search without flags.
RECURSIVE MatchPiecesCased(_, _, _, _)
MatchPiecesCased(s, pieces, k, from) ==
  IF k > Len(pieces) THEN TRUE
  ELSE \E i \in from..(Len(s) - Len(pieces[k]) + 1) :
         /\ OccursAt(s, pieces[k], i)
         /\ (k = 1 \/ \A j \in from..(i - 1) : s[j] # 10)
         /\ MatchPiecesCased(s, pieces, k + 1, i + Len(pieces[k]))

\* re.search(pattern, text)
re_search_cased(alts, s) == \E a \in 1..Len(alts) : MatchPiecesCased(s, alts[a], 1, 1)

\* Mutant: every message counts as the customer's.
IsCustomer_any_role(msg) == TRUE

\* msg.get("role") == "user"
IsCustomer(msg) == msg.role = "user"

\* The inner loops of _extract_issues for one message text: the entries of
\* issue_patterns, in dict order, with a pattern that matches and a category
\* not yet in issues are appended.  The categories are distinct dict keys,
\* so an append of this message never fails the test of a later entry.
ScanIssues(s, issues) ==
  LET hit(entry) ==
        /\ \E p \in DOMAIN entry.patterns : re_search_cased(entry.patterns[p], s)
        /\ \A k \in DOMAIN issues : issues[k] # entry.category
      hits == SelectSeq(issue_patterns, hit)
  IN issues \o [k \in DOMAIN hits |-> hits[k].category]

\* The outer loop of _extract_issues over the first m messages.
RECURSIVE IssuesUpTo(_, _)
IssuesUpTo(messages, m) ==
  IF m = 0 THEN <<>>
  ELSE LET issues == IssuesUpTo(messages, m - 1)
       IN IF IsCustomer(messages[m]) THEN ScanIssues(messages[m].content, issues)
          ELSE issues

_extract_issues(messages) == IssuesUpTo(messages, Len(messages))

\* Mutant: only the severity critical makes the priority critical.
CriticalRule_only_critical(harassment_detected, harassment_severity) ==
  harassment_detected /\ harassment_severity = Some("critical")

\* harassment_detected and harassment_severity in ("critical", "high")
CriticalRule(harassment_detected, harassment_severity) ==
  harassment_detected /\ harassment_severity \in {Some("critical"), Some("high")}

\* Mutant: ten messages are already a long conversation.
HighRule_ten_messages(harassment_detected, sentiment_history, message_count) ==
  \/ harassment_detected
  \/ Count(sentiment_history, "anger") >= 2
  \/ Count(sentiment_history, "anger") >= 1 \/ message_count >= 10
  \/ Count(sentiment_history, "negative") >= 3

\* Mutant: the length of the conversation is not looked at.
HighRule_no_message_count(harassment_detected, sentiment_history, message_count) ==
  \/ harassment_detected
  \/ Count(sentiment_history, "anger") >= 2
  \/ Count(sentiment_history, "anger") >= 1
  \/ Count(sentiment_history, "negative") >= 3

\* The four tests of _determine_priority that return "high", in their order.
HighRule(harassment_detected, sentiment_history, message_count) ==
  \/ harassment_detected
  \/ Count(sentiment_history, "anger") >= 2
  \/ Count(sentiment_history, "anger") >= 1 \/ message_count > 10
  \/ Count(sentiment_history, "negative") >= 3

_determine_priority(harassment_detected, harassment_severity, sentiment_history, message_count) ==
  IF CriticalRule(harassment_detected, harassment_severity) THEN "critical"
  ELSE IF HighRule(harassment_detected, sentiment_history, message_count) THEN "high"
  ELSE "normal"

\* text[:100]
Truncate(s) == SubSeq(s, 1, Min(Len(s), 100))

\* The summary is kept as the list summary_parts that " | ".join() glues:
\* each part is a record naming its label and holding what the label is
\* followed by.
_generate_summary(messages, issues) ==
  LET customer_messages == SelectSeq(messages, IsCustomer)
      msg_count == Len(customer_messages)
      first_msg == Truncate(customer_messages[1].content)
      last_msg == IF msg_count > 1 THEN Truncate(customer_messages[msg_count].content) ELSE <<>>
  IN IF msg_count = 0 THEN <<[part |-> "no_customer_messages"]>>
     ELSE <<[part |-> "customer_message_count", count |-> msg_count]>>
          \o (IF issues # <<>> THEN <<[part |-> "detected_issues", issues |-> issues]>> ELSE <<>>)
          \o <<[part |-> "first_inquiry", content |-> first_msg]>>
          \o (IF last_msg # <<>> THEN <<[part |-> "latest_message", content |-> last_msg]>> ELSE <<>>)

\* now is what datetime.utcnow() returns during the call.
build_handoff_context(conversation_id, messages, customer_name, sentiment_history, harassment_detected, harassment_severity, ai_resolution_attempted, now) ==
  LET history == IF sentiment_history = None THEN <<>> ELSE sentiment_history[1]
      order_numbers == _extract_order_numbers(messages)
      issues == _extract_issues(messages)
  IN [conversation_id |-> conversation_id,
      customer_name |-> customer_name,
      summary |-> _generate_summary(messages, issues),
      detected_issues |-> issues,
      order_numbers |-> order_numbers,
      sentiment_history |-> history,
      harassment_detected |-> harassment_detected,
      harassment_severity |-> harassment_severity,
      priority |-> _determine_priority(harassment_detected, harassment_severity,
                                       history, Len(messages)),
      ai_resolution_attempted |-> ai_resolution_attempted,
      metadata |-> [total_messages |-> Len(messages),
                    customer_messages |-> Len(SelectSeq(messages, IsCustomer)),
                    handoff_timestamp |-> now]]

\* ------------------------------------------------------------------------
\* Inputs
\* ------------------------------------------------------------------------

RECURSIVE Concat(_, _)
Concat(ix, k) == IF k = 0 THEN <<>> ELSE Concat(ix, k - 1) \o Fragments[ix[k]]

\* Every concatenation of at most MaxFrags fragments; the empty one is "".
Texts ==
  UNION {{Concat(ix, n) : ix \in [1..n -> 1..Len(Fragments)]} : n \in 0..MaxFrags}

Inputs == {None} \cup {Some(s) : s \in Texts}

\* "！！！！！", what test_exclamation_boosts_anger appends.
Bangs == <<65281, 65281, 65281, 65281, 65281>>

\* The strings handed to _calculate_combined_risk: the labels of both
\* enums and one string of neither.
RiskArgs == Severity \cup Sentiment \cup {"unknown"}

\* ------------------------------------------------------------------------
\* State machine: a caller of the three functions.  It classifies its message
\* in the order of lambda_handler: detect_harassment, then analyze_sentiment.
\* ------------------------------------------------------------------------

\* No call of the handoff builder was made.
NoHandoff ==
  /\ call = <<>>
  /\ handoff = <<>>
  /\ clock = 0

\* No Lambda function is invoked.
NoInvocation ==
  /\ endpoint = "none"
  /\ pc = "idle"
  /\ event = None
  /\ api_key = FALSE
  /\ ai_response = <<>>
  /\ needs_handoff = FALSE
  /\ ai_analysis = None
  /\ db = <<>>
  /\ response = <<>>

\* No call of execute_insert runs or has run; the pool has every connection.
NoDatabaseCall ==
  /\ pool_used = {}
  /\ conn = None
  /\ step = "idle"
  /\ failing = FALSE
  /\ txn = <<>>
  /\ frames = <<>>

\* No call is logged.
NoCallLog == calls = <<>>

Init ==
  /\ text \in Inputs
  /\ harassment = <<>>
  /\ sentiment = <<>>
  /\ excited = <<>>
  /\ risk = <<>>
  /\ NoHandoff
  /\ NoInvocation
  /\ NoDatabaseCall
  /\ NoCallLog

DetectHarassment ==
  /\ harassment = <<>>
  /\ harassment' = <<detect_harassment(text)>>
  /\ UNCHANGED <<text, sentiment, excited, risk>>
  /\ UNCHANGED <<handoffVars, apiVars>>
  /\ UNCHANGED <<poolVars, logVars>>

AnalyzeSentiment ==
  /\ harassment # <<>>
  /\ sentiment = <<>>
  /\ sentiment' = <<analyze_sentiment(text)>>
  /\ UNCHANGED <<text, harassment, excited, risk>>
  /\ UNCHANGED <<handoffVars, apiVars>>
  /\ UNCHANGED <<poolVars, logVars>>

\* result_excited = analyze_sentiment(text + "！！！！！"), after result_calm.
AnalyzeExcited ==
  /\ text # None
  /\ sentiment # <<>>
  /\ excited = <<>>
  /\ excited' = <<analyze_sentiment(Some(text[1] \o Bangs))>>
  /\ UNCHANGED <<text, harassment, sentiment, risk>>
  /\ UNCHANGED <<handoffVars, apiVars>>
  /\ UNCHANGED <<poolVars, logVars>>

\* lambda_handler's call: the two results' labels.
CombineResults ==
  /\ harassment # <<>>
  /\ sentiment # <<>>
  /\ risk = <<>>
  /\ risk' = <<[harassment_severity |-> harassment[1].severity,
                sentiment |-> sentiment[1].sentiment,
                combined_risk |-> _calculate_combined_risk(harassment[1].severity,
                                                           sentiment[1].sentiment)]>>
  /\ UNCHANGED <<text, harassment, sentiment, excited>>
  /\ UNCHANGED <<handoffVars, apiVars>>
  /\ UNCHANGED <<poolVars, logVars>>

\* A direct call with any two strings, by a caller that holds no message.
LookupRisk ==
  /\ text = None
  /\ risk = <<>>
  /\ \E h \in RiskArgs, s \in RiskArgs :
       risk' = <<[harassment_severity |-> h, sentiment |-> s,
                  combined_risk |-> _calculate_combined_risk(h, s)]>>
  /\ UNCHANGED <<text, harassment, sentiment, excited>>
  /\ UNCHANGED <<handoffVars, apiVars>>
  /\ UNCHANGED <<poolVars, logVars>>

Next ==
  \/ DetectHarassment
  \/ AnalyzeSentiment
  \/ AnalyzeExcited
  \/ CombineResults
  \/ LookupRisk

Spec == Init /\ [][Next]_vars

\* ------------------------------------------------------------------------
\* A caller of the handoff builder
\* ------------------------------------------------------------------------

\* The longest conversation without content of interest, the longest
\* sentiment_history, and the longest conversation made of Transcripts.
MaxMessages == 11
MaxHistory == 3
MaxTail == 2

\* Customer sentences of tests/test_handoff.py.
Transcripts == <<
  \* test_extract_order_number: "注文番号 ORD-12345 の商品が届きません"
  <<27880, 25991, 30058, 21495, 32, 79, 82, 68, 45, 49, 50, 51, 52, 53, 32, 12398, 21830, 21697, 12364, 23626, 12365, 12414, 12379, 12435>>,
  \* test_multiple_order_numbers: "注文番号 ORD-001 と order#ORD-002 について"
  <<27880, 25991, 30058, 21495, 32, 79, 82, 68, 45, 48, 48, 49, 32, 12392, 32, 111, 114, 100, 101, 114, 35, 79, 82, 68, 45, 48, 48, 50, 32, 12395, 12388, 12356, 12390>>,
  \* test_detect_shipping_issue: "商品が届かないんですが"
  <<21830, 21697, 12364, 23626, 12363, 12394, 12356, 12435, 12391, 12377, 12364>>,
  \* test_detect_quality_issue: "届いた商品が壊れています"
  <<23626, 12356, 12383, 21830, 21697, 12364, 22730, 12428, 12390, 12356, 12414, 12377>>,
  \* test_detect_return_issue: "返品したいのですが"
  <<36820, 21697, 12375, 12383, 12356, 12398, 12391, 12377, 12364>>,
  \* test_detect_billing_issue: "請求がおかしいです。二重課金されています。"
  <<35531, 27714, 12364, 12362, 12363, 12375, 12356, 12391, 12377, 12290, 20108, 37325, 35506, 37329, 12373, 12428, 12390, 12356, 12414, 12377, 12290>>
>>

\* The messages of test_metadata_message_counts, ("user", "msg1") and
\* ("assistant", "reply1"), in turn: a conversation of n messages that
\* holds no order number and no issue.
SmallTalk(n) ==
  [i \in 1..n |-> IF i % 2 = 1 THEN [role |-> "user", content |-> <<109, 115, 103, 49>>]
                  ELSE [role |-> "assistant", content |-> <<114, 101, 112, 108, 121, 49>>]]

\* Every list of at most n values of the set S.
SeqsUpTo(S, n) == UNION {[1..k -> S] : k \in 0..n}

\* The arguments of the calls of build_handoff_context.  A call about an
\* escalation hands over small talk of any length with any sentiment
\* history and harassment verdict; a call about a transcript hands over a
\* short conversation of Transcripts in any role and leaves the optional
\* arguments at their defaults.
HandoffCalls ==
  { [conversation_id |-> "conv-1", messages |-> SmallTalk(n), sentiment_history |-> h,
     harassment_detected |-> d, harassment_severity |-> s] :
      n \in 0..MaxMessages,
      h \in {None} \cup {Some(l) : l \in SeqsUpTo({"anger", "negative", "neutral"}, MaxHistory)},
      d \in BOOLEAN,
      s \in {None} \cup {Some(l) : l \in Severity} }
  \cup
  { [conversation_id |-> "conv-1", messages |-> m, sentiment_history |-> None,
     harassment_detected |-> FALSE, harassment_severity |-> None] :
      m \in SeqsUpTo({[role |-> r, content |-> Transcripts[c]] :
                        r \in {"user", "assistant"}, c \in DOMAIN Transcripts}, MaxTail) }

\* No message is being classified outside a Lambda function.
NoClassification ==
  /\ text = None
  /\ harassment = <<>>
  /\ sentiment = <<>>
  /\ excited = <<>>
  /\ risk = <<>>

InitHandoff ==
  /\ NoClassification
  /\ NoHandoff
  /\ NoInvocation
  /\ NoDatabaseCall
  /\ NoCallLog

\* ctx = build_handoff_context(conversation_id, messages, ...), with
\* customer_name and ai_resolution_attempted at their defaults.
BuildHandoff ==
  /\ call = <<>>
  /\ \E args \in HandoffCalls :
       /\ call' = <<args>>
       /\ handoff' = <<build_handoff_context(args.conversation_id, args.messages, None,
                                             args.sentiment_history, args.harassment_detected,
                                             args.harassment_severity, TRUE, clock)>>
  /\ clock' = clock + 1
  /\ UNCHANGED <<classifierVars, apiVars>>
  /\ UNCHANGED <<poolVars, logVars>>

NextHandoff == BuildHandoff

SpecHandoff == InitHandoff /\ [][NextHandoff]_vars

\* ------------------------------------------------------------------------
\* layers/common/python/response_helpers.py, functions/chat/app.py and the
\* handler of functions/analyze/app.py
\*
\* json.dumps turns the body of a response into text and loses nothing of
\* the values below, so a response keeps its body as the dict it was built
\* from.  A sentence that the code returns verbatim is named by a tag.
\* ------------------------------------------------------------------------

\* The body of an API Gateway response; the CORS headers are constant.
success_response(body) == [statusCode |-> 200, body |-> body]

error_response(message, status_code) == [statusCode |-> status_code, body |-> [error |-> message]]

\* str.strip()
Strip(s) ==
  LET kept == {i \in DOMAIN s : s[i] \notin Whitespace} IN
  IF kept = {} THEN <<>>
  ELSE SubSeq(s, CHOOSE i \in kept : \A j \in kept : i <= j,
                 CHOOSE i \in kept : \A j \in kept : i >= j)

\* RESPONSE_RULES (chat/app.py): (keywords, response) pairs in source order.
\* A response is a fixed Japanese sentence; it is named here by a tag.
RESPONSE_RULES == <<
  \* 届かない, 届いていない, 配送, 配達, 発送, shipping
  [keywords |-> << <<23626, 12363, 12394, 12356>>, <<23626, 12356, 12390, 12356, 12394, 12356>>, <<37197, 36865>>, <<37197, 36948>>, <<30330, 36865>>, <<115, 104, 105, 112, 112, 105, 110, 103>> >>,
   response |-> "reply_shipping"],
  \* 返品, 返金, キャンセル, 取り消し, 払い戻し, return, refund
  [keywords |-> << <<36820, 21697>>, <<36820, 37329>>, <<12461, 12515, 12531, 12475, 12523>>, <<21462, 12426, 28040, 12375>>, <<25173, 12356, 25147, 12375>>, <<114, 101, 116, 117, 114, 110>>, <<114, 101, 102, 117, 110, 100>> >>,
   response |-> "reply_refund"],
  \* 壊れ, 不良, 破損, 故障, 動かない, 傷, defect, broken
  [keywords |-> << <<22730, 12428>>, <<19981, 33391>>, <<30772, 25613>>, <<25925, 38556>>, <<21205, 12363, 12394, 12356>>, <<20663>>, <<100, 101, 102, 101, 99, 116>>, <<98, 114, 111, 107, 101, 110>> >>,
   response |-> "reply_defect"],
  \* ログイン, パスワード, アカウント, login, password, account
  [keywords |-> << <<12525, 12464, 12452, 12531>>, <<12497, 12473, 12527, 12540, 12489>>, <<12450, 12459, 12454, 12531, 12488>>, <<108, 111, 103, 105, 110>>, <<112, 97, 115, 115, 119, 111, 114, 100>>, <<97, 99, 99, 111, 117, 110, 116>> >>,
   response |-> "reply_account"],
  \* 請求, 課金, 料金, 支払い, billing, charge, payment
  [keywords |-> << <<35531, 27714>>, <<35506, 37329>>, <<26009, 37329>>, <<25903, 25173, 12356>>, <<98, 105, 108, 108, 105, 110, 103>>, <<99, 104, 97, 114, 103, 101>>, <<112, 97, 121, 109, 101, 110, 116>> >>,
   response |-> "reply_billing"],
  \* こんにちは, はじめまして, よろしく, hello, hi
  [keywords |-> << <<12371, 12435, 12395, 12385, 12399>>, <<12399, 12376, 12417, 12414, 12375, 12390>>, <<12424, 12429, 12375, 12367>>, <<104, 101, 108, 108, 111>>, <<104, 105>> >>,
   response |-> "reply_greeting"],
  \* ありがとう, 感謝, 助かり, thank
  [keywords |-> << <<12354, 12426, 12364, 12392, 12358>>, <<24863, 35613>>, <<21161, 12363, 12426>>, <<116, 104, 97, 110, 107>> >>,
   response |-> "reply_thanks"]
>>

\* The first rule with a keyword in the lower-cased message, else
\* DEFAULT_RESPONSE.
_generate_rule_based_response(message) ==
  LET message_lower == LowerStr(message)
      hits == {r \in DOMAIN RESPONSE_RULES :
                 \E k \in DOMAIN RESPONSE_RULES[r].keywords :
                   Contains(message_lower, RESPONSE_RULES[r].keywords[k])}
  IN IF hits = {} THEN "reply_default"
     ELSE RESPONSE_RULES[CHOOSE r \in hits : \A q \in hits : r <= q].response

\* What the Claude API can do to a call of the chat handler: return a
\* text, named by a tag, or raise.
AiReplies == {"reply_ai"}

\* The replies _generate_ai_response can return: without an API key the
\* rule-based one; with a key the text of the API, or, when the call
\* raises, the rule-based one.
_generate_ai_response(message, conversation_history) ==
  IF ~api_key THEN {_generate_rule_based_response(message)}
  ELSE AiReplies \cup {_generate_rule_based_response(message)}

\* The JSON objects the Claude API can answer the analysis prompt with: it
\* is free to contradict the rules.
AiVerdicts ==
  {[is_harassment |-> TRUE, severity |-> "critical", sentiment |-> "anger"],
   [is_harassment |-> FALSE, severity |-> "none", sentiment |-> "positive"]}

\* What _ai_enhanced_analysis can return: None without an API key; with a
\* key the JSON object of the answer, or None when the call raises or the
\* answer holds no JSON object.
_ai_enhanced_analysis(message) ==
  IF ~api_key THEN {None}
  ELSE {None} \cup {Some(v) : v \in AiVerdicts}

\* harassment.is_harassment and harassment.severity.value in ("critical", "high")
SevereResult(result) == result.is_harassment /\ result.severity \in {"critical", "high"}

\* ------------------------------------------------------------------------
\* State machine: one invocation of a Lambda function, statement by
\* statement.  A call of execute_insert either commits its row or raises
\* and commits nothing.
\* ------------------------------------------------------------------------

\* The longest history of a chat request, in earlier turns of the
\* conversation (a customer message and the reply to it).
MaxTurns == 1

\* The messages of the requests.
Messages ==
  {Fragments[i] : i \in {1, 2, 3, 5, 7, 8, 10, 11, 12, 13}}
    \cup {Transcripts[3], <<>>, Fragments[7] \o Fragments[5] \o Fragments[7]}

\* The customer messages of earlier turns.
EarlierMessages == {Fragments[2], Fragments[5], Transcripts[3]}

\* The history of n earlier turns with the customer messages ms[1..n].
RECURSIVE Turns(_, _)
Turns(ms, n) ==
  IF n = 0 THEN <<>>
  ELSE Turns(ms, n - 1) \o <<[role |-> "user", content |-> ms[n]],
                              [role |-> "assistant", content |-> <<114, 101, 112, 108, 121, 49>>]>>

Histories == UNION {{Turns(ms, n) : ms \in [1..n -> EarlierMessages]} : n \in 0..MaxTurns}

\* What parse_body returns for the requests to POST /api/chat: None for a
\* missing or malformed body, else the dict; an absent key is None.
ChatEvents ==
  {None} \cup
  {Some([message |-> m, conversation_id |-> c, history |-> h, use_ai |-> TRUE]) :
     m \in Messages, c \in {None, Some("conv-1")}, h \in Histories}

\* The same for POST /api/analyze.
AnalyzeEvents ==
  {None} \cup
  {Some([message |-> m, conversation_id |-> c, history |-> <<>>, use_ai |-> u]) :
     m \in Messages, c \in {None, Some("conv-1")}, u \in BOOLEAN}

InitApi ==
  /\ NoClassification
  /\ NoHandoff
  /\ endpoint \in {"chat", "analyze"}
  /\ pc = "parse"
  /\ event \in (IF endpoint = "chat" THEN ChatEvents ELSE AnalyzeEvents)
  /\ api_key \in BOOLEAN
  /\ ai_response = <<>>
  /\ needs_handoff = FALSE
  /\ ai_analysis = None
  /\ db = <<>>
  /\ response = <<>>
  /\ NoDatabaseCall
  /\ NoCallLog

\* body.get("conversation_id", default)
ConversationId(default) ==
  IF event[1].conversation_id = None THEN default ELSE event[1].conversation_id[1]

\* chat: parse_body, the two 400 answers, message = body.get("message", "").strip()
ChatParse ==
  /\ endpoint = "chat"
  /\ pc = "parse"
  /\ IF event = None
     THEN /\ response' = <<error_response("Request body is required", 400)>>
          /\ pc' = "done"
          /\ text' = text
     ELSE IF Strip(event[1].message) = <<>>
     THEN /\ response' = <<error_response("Message is required", 400)>>
          /\ pc' = "done"
          /\ text' = text
     ELSE /\ text' = Some(Strip(event[1].message))
          /\ pc' = "detect"
          /\ response' = response
  /\ UNCHANGED <<harassment, sentiment, excited, risk, handoffVars>>
  /\ UNCHANGED <<endpoint, event, api_key, ai_response, needs_handoff, ai_analysis, db>>
  /\ UNCHANGED <<poolVars, logVars>>

\* chat, step 1: harassment = detect_harassment(message)
ChatDetect ==
  /\ endpoint = "chat"
  /\ pc = "detect"
  /\ harassment' = <<detect_harassment(text)>>
  /\ pc' = "sentiment"
  /\ UNCHANGED <<text, sentiment, excited, risk, handoffVars>>
  /\ UNCHANGED <<endpoint, event, api_key, ai_response, needs_handoff, ai_analysis, db, response>>
  /\ UNCHANGED <<poolVars, logVars>>

\* chat, step 2: sentiment = analyze_sentiment(message)
ChatSentiment ==
  /\ endpoint = "chat"
  /\ pc = "sentiment"
  /\ sentiment' = <<analyze_sentiment(text)>>
  /\ pc' = "respond"
  /\ UNCHANGED <<text, harassment, excited, risk, handoffVars>>
  /\ UNCHANGED <<endpoint, event, api_key, ai_response, needs_handoff, ai_analysis, db, response>>
  /\ UNCHANGED <<poolVars, logVars>>

\* chat, step 3: the fixed notice for severe harassment, else the reply of
\* _generate_ai_response.
ChatRespond ==
  /\ endpoint = "chat"
  /\ pc = "respond"
  /\ IF SevereResult(harassment[1])
     THEN /\ ai_response' = <<"reply_handoff">>
          /\ needs_handoff' = TRUE
     ELSE /\ \E reply \in _generate_ai_response(text[1], event[1].history) :
               ai_response' = <<reply>>
          /\ needs_handoff' = FALSE
  /\ pc' = "handoff"
  /\ UNCHANGED <<classifierVars, handoffVars>>
  /\ UNCHANGED <<endpoint, event, api_key, ai_analysis, db, response>>
  /\ UNCHANGED <<poolVars, logVars>>

\* Mutant: the handler hands the builder an empty sentiment_history.
ChatHandoffArgs_empty_history ==
  [conversation_id |-> ConversationId("uuid4"),
   messages |-> event[1].history \o <<[role |-> "user", content |-> text[1]]>>,
   sentiment_history |-> Some(<<>>),
   harassment_detected |-> harassment[1].is_harassment,
   harassment_severity |-> Some(harassment[1].severity)]

\* The arguments the chat handler calls build_handoff_context with.
ChatHandoffArgs ==
  [conversation_id |-> ConversationId("uuid4"),
   messages |-> event[1].history \o <<[role |-> "user", content |-> text[1]]>>,
   sentiment_history |-> Some(<<sentiment[1].sentiment>>),
   harassment_detected |-> harassment[1].is_harassment,
   harassment_severity |-> Some(harassment[1].severity)]

\* Mutant: the anger alert alone builds no handoff.
ChatHandoff_harassment_only ==
  /\ endpoint = "chat"
  /\ pc = "handoff"
  /\ IF needs_handoff
     THEN /\ call' = <<ChatHandoffArgs>>
          /\ handoff' = <<build_handoff_context(ChatHandoffArgs.conversation_id, ChatHandoffArgs.messages, None, ChatHandoffArgs.sentiment_history, ChatHandoffArgs.harassment_detected, ChatHandoffArgs.harassment_severity, TRUE, clock)>>
          /\ clock' = clock + 1
     ELSE UNCHANGED handoffVars
  /\ pc' = "save_user"
  /\ UNCHANGED classifierVars
  /\ UNCHANGED <<endpoint, event, api_key, ai_response, needs_handoff, ai_analysis, db, response>>
  /\ UNCHANGED <<poolVars, logVars>>

\* chat, step 4: build the handoff context if needs_handoff or
\* sentiment.trigger_alert.
ChatHandoff ==
  /\ endpoint = "chat"
  /\ pc = "handoff"
  /\ IF needs_handoff \/ sentiment[1].trigger_alert
     THEN /\ call' = <<ChatHandoffArgs>>
          /\ handoff' = <<build_handoff_context(ChatHandoffArgs.conversation_id, ChatHandoffArgs.messages, None, ChatHandoffArgs.sentiment_history, ChatHandoffArgs.harassment_detected, ChatHandoffArgs.harassment_severity, TRUE, clock)>>
          /\ clock' = clock + 1
     ELSE UNCHANGED handoffVars
  /\ pc' = "save_user"
  /\ UNCHANGED classifierVars
  /\ UNCHANGED <<endpoint, event, api_key, ai_response, needs_handoff, ai_analysis, db, response>>
  /\ UNCHANGED <<poolVars, logVars>>

\* Mutant: the failure of the first insert is not caught; API Gateway
\* answers for the handler that raised.
ChatSaveUser_uncaught ==
  /\ endpoint = "chat"
  /\ pc = "save_user"
  /\ \/ /\ db' = Append(db, [table |-> "messages", conversation_id |-> ConversationId("uuid4"),
                             role |-> "user", content |-> text[1],
                             sentiment |-> sentiment[1].sentiment,
                             harassment_severity |-> harassment[1].severity])
        /\ pc' = "save_assistant"
        /\ response' = response
     \/ /\ db' = db
        /\ pc' = "done"
        /\ response' = <<error_response("Internal server error", 502)>>
  /\ UNCHANGED <<classifierVars, handoffVars>>
  /\ UNCHANGED <<endpoint, event, api_key, ai_response, needs_handoff, ai_analysis>>
  /\ UNCHANGED <<poolVars, logVars>>

\* chat, step 5, first insert: the customer's message.  When it raises,
\* the except clause logs and the handler goes on to its return.
ChatSaveUser ==
  /\ endpoint = "chat"
  /\ pc = "save_user"
  /\ \/ /\ db' = Append(db, [table |-> "messages", conversation_id |-> ConversationId("uuid4"),
                             role |-> "user", content |-> text[1],
                             sentiment |-> sentiment[1].sentiment,
                             harassment_severity |-> harassment[1].severity])
        /\ pc' = "save_assistant"
     \/ /\ db' = db
        /\ pc' = "return"
  /\ UNCHANGED <<classifierVars, handoffVars>>
  /\ UNCHANGED <<endpoint, event, api_key, ai_response, needs_handoff, ai_analysis, response>>
  /\ UNCHANGED <<poolVars, logVars>>

\* chat, step 5, second insert: the reply.
ChatSaveAssistant ==
  /\ endpoint = "chat"
  /\ pc = "save_assistant"
  /\ \/ /\ db' = Append(db, [table |-> "messages", conversation_id |-> ConversationId("uuid4"),
                             role |-> "assistant", content |-> ai_response[1]])
        /\ pc' = IF harassment[1].is_harassment THEN "save_event" ELSE "return"
     \/ /\ db' = db
        /\ pc' = "return"
  /\ UNCHANGED <<classifierVars, handoffVars>>
  /\ UNCHANGED <<endpoint, event, api_key, ai_response, needs_handoff, ai_analysis, response>>
  /\ UNCHANGED <<poolVars, logVars>>

\* chat, step 5, third insert: the harassment event, if harassment.is_harassment.
ChatSaveEvent ==
  /\ endpoint = "chat"
  /\ pc = "save_event"
  /\ \/ db' = Append(db, [table |-> "harassment_events", conversation_id |-> ConversationId("uuid4"),
                          severity |-> harassment[1].severity,
                          categories |-> harassment[1].categories,
                          matched_patterns |-> harassment[1].matched_patterns])
     \/ db' = db
  /\ pc' = "return"
  /\ UNCHANGED <<classifierVars, handoffVars>>
  /\ UNCHANGED <<endpoint, event, api_key, ai_response, needs_handoff, ai_analysis, response>>
  /\ UNCHANGED <<poolVars, logVars>>

\* chat, step 6: return success_response({...}).
ChatReturn ==
  /\ endpoint = "chat"
  /\ pc = "return"
  /\ response' = <<success_response([conversation_id |-> ConversationId("uuid4"),
                                     response |-> ai_response[1],
                                     sentiment |-> sentiment[1],
                                     harassment |-> harassment[1],
                                     handoff |-> handoff,
                                     needs_handoff |-> needs_handoff,
                                     timestamp |-> clock])>>
  /\ clock' = clock + 1
  /\ pc' = "done"
  /\ UNCHANGED <<classifierVars, call, handoff>>
  /\ UNCHANGED <<endpoint, event, api_key, ai_response, needs_handoff, ai_analysis, db>>
  /\ UNCHANGED <<poolVars, logVars>>

\* analyze: parse_body, the two 400 answers, message = body.get("message", "").strip()
AnalyzeParse ==
  /\ endpoint = "analyze"
  /\ pc = "parse"
  /\ IF event = None
     THEN /\ response' = <<error_response("Request body is required", 400)>>
          /\ pc' = "done"
          /\ text' = text
     ELSE IF Strip(event[1].message) = <<>>
     THEN /\ response' = <<error_response("Message is required", 400)>>
          /\ pc' = "done"
          /\ text' = text
     ELSE /\ text' = Some(Strip(event[1].message))
          /\ pc' = "classify"
          /\ response' = response
  /\ UNCHANGED <<harassment, sentiment, excited, risk, handoffVars>>
  /\ UNCHANGED <<endpoint, event, api_key, ai_response, needs_handoff, ai_analysis, db>>
  /\ UNCHANGED <<poolVars, logVars>>

\* analyze: the rule-based analysis, detect_harassment then analyze_sentiment.
AnalyzeClassify ==
  /\ endpoint = "analyze"
  /\ pc = "classify"
  /\ harassment' = <<detect_harassment(text)>>
  /\ sentiment' = <<analyze_sentiment(text)>>
  /\ pc' = "augment"
  /\ UNCHANGED <<text, excited, risk, handoffVars>>
  /\ UNCHANGED <<endpoint, event, api_key, ai_response, needs_handoff, ai_analysis, db, response>>
  /\ UNCHANGED <<poolVars, logVars>>

\* analyze: ai_analysis = _ai_enhanced_analysis(message) if use_ai, else None.
AnalyzeAugment ==
  /\ endpoint = "analyze"
  /\ pc = "augment"
  /\ IF event[1].use_ai
     THEN ai_analysis' \in _ai_enhanced_analysis(text[1])
     ELSE ai_analysis' = None
  /\ pc' = "risk"
  /\ UNCHANGED <<classifierVars, handoffVars>>
  /\ UNCHANGED <<endpoint, event, api_key, ai_response, needs_handoff, db, response>>
  /\ UNCHANGED <<poolVars, logVars>>

\* Mutant: the verdict of the API, when there is one, replaces the labels
\* of the rules.
AnalyzeRisk_ai_override ==
  /\ endpoint = "analyze"
  /\ pc = "risk"
  /\ LET h == IF ai_analysis = None THEN harassment[1].severity ELSE ai_analysis[1].severity
         s == IF ai_analysis = None THEN sentiment[1].sentiment ELSE ai_analysis[1].sentiment
     IN risk' = <<[harassment_severity |-> h, sentiment |-> s,
                   combined_risk |-> _calculate_combined_risk(h, s)]>>
  /\ pc' = "save"
  /\ UNCHANGED <<text, harassment, sentiment, excited, handoffVars>>
  /\ UNCHANGED <<endpoint, event, api_key, ai_response, needs_handoff, ai_analysis, db, response>>
  /\ UNCHANGED <<poolVars, logVars>>

\* analyze: combined_risk = _calculate_combined_risk(harassment.severity.value,
\* sentiment.sentiment.value)
AnalyzeRisk ==
  /\ endpoint = "analyze"
  /\ pc = "risk"
  /\ risk' = <<[harassment_severity |-> harassment[1].severity,
                sentiment |-> sentiment[1].sentiment,
                combined_risk |-> _calculate_combined_risk(harassment[1].severity,
                                                           sentiment[1].sentiment)]>>
  /\ pc' = "save"
  /\ UNCHANGED <<text, harassment, sentiment, excited, handoffVars>>
  /\ UNCHANGED <<endpoint, event, api_key, ai_response, needs_handoff, ai_analysis, db, response>>
  /\ UNCHANGED <<poolVars, logVars>>

\* analyze: the insert into analysis_logs.  When it raises, the except
\* clause logs and the handler goes on.
AnalyzeSave ==
  /\ endpoint = "analyze"
  /\ pc = "save"
  /\ \/ db' = Append(db, [table |-> "analysis_logs", conversation_id |-> ConversationId("unknown"),
                          message_text |-> SubSeq(text[1], 1, Min(Len(text[1]), 500)),
                          harassment_severity |-> harassment[1].severity,
                          sentiment |-> sentiment[1].sentiment,
                          combined_risk |-> risk[1].combined_risk,
                          ai_enhanced |-> ai_analysis # None])
     \/ db' = db
  /\ pc' = "return"
  /\ UNCHANGED <<classifierVars, handoffVars>>
  /\ UNCHANGED <<endpoint, event, api_key, ai_response, needs_handoff, ai_analysis, response>>
  /\ UNCHANGED <<poolVars, logVars>>

\* Mutant: the harassment alert does not overwrite the anger alert.
Alert_anger_first(harassment_result, sentiment_result) ==
  IF sentiment_result.trigger_alert
  THEN Some([type |-> "anger_detected", message |-> <<"anger_detected">>, severity |-> "high"])
  ELSE IF SevereResult(harassment_result)
  THEN Some([type |-> "harassment_detected",
             message |-> <<harassment_result.severity, harassment_result.recommendation>>,
             severity |-> harassment_result.severity])
  ELSE None

\* result["alert"]: absent, the anger alert, or the harassment alert that
\* overwrites it.
Alert(harassment_result, sentiment_result) ==
  IF SevereResult(harassment_result)
  THEN Some([type |-> "harassment_detected",
             message |-> <<harassment_result.severity, harassment_result.recommendation>>,
             severity |-> harassment_result.severity])
  ELSE IF sentiment_result.trigger_alert
  THEN Some([type |-> "anger_detected", message |-> <<"anger_detected">>, severity |-> "high"])
  ELSE None

\* analyze: build result and return success_response(result).
AnalyzeReturn ==
  /\ endpoint = "analyze"
  /\ pc = "return"
  /\ response' = <<success_response([harassment |-> harassment[1],
                                     sentiment |-> sentiment[1],
                                     combined_risk |-> risk[1].combined_risk,
                                     ai_analysis |-> ai_analysis,
                                     analyzed_at |-> clock,
                                     alert |-> Alert(harassment[1], sentiment[1])])>>
  /\ clock' = clock + 1
  /\ pc' = "done"
  /\ UNCHANGED <<classifierVars, call, handoff>>
  /\ UNCHANGED <<endpoint, event, api_key, ai_response, needs_handoff, ai_analysis, db>>
  /\ UNCHANGED <<poolVars, logVars>>

NextApi ==
  \/ ChatParse
  \/ ChatDetect
  \/ ChatSentiment
  \/ ChatRespond
  \/ ChatHandoff
  \/ ChatSaveUser
  \/ ChatSaveAssistant
  \/ ChatSaveEvent
  \/ ChatReturn
  \/ AnalyzeParse
  \/ AnalyzeClassify
  \/ AnalyzeAugment
  \/ AnalyzeRisk
  \/ AnalyzeSave
  \/ AnalyzeReturn

SpecApi == InitApi /\ [][NextApi]_vars

\* ------------------------------------------------------------------------
\* layers/common/python/db.py under the chat handler
\*
\* The chat handler again, with every call of execute_insert of its step 5
\* taken apart into the statements of execute_insert, get_cursor and
\* get_connection.  psycopg2 is not part of the repository: a call into it
\* either returns or raises an exception of class Exception, and what it
\* does to the pool, to the transaction and to the database is what its
\* documentation says.
\* ------------------------------------------------------------------------

\* The connections the pool can hand out at a time (maxconn is 5).
MaxConnections == 2

Connections == 1..MaxConnections

\* The requests of the invocations: a threat, a threat of exposure, praise.
DbEvents ==
  {Some([message |-> m, conversation_id |-> Some("conv-1"), history |-> <<>>, use_ai |-> TRUE]) :
     m \in {Fragments[1], Fragments[8], Fragments[11]}}

InitDb ==
  /\ NoClassification
  /\ NoHandoff
  /\ endpoint = "chat"
  /\ pc = "parse"
  /\ event \in DbEvents
  /\ api_key = FALSE
  /\ ai_response = <<>>
  /\ needs_handoff = FALSE
  /\ ai_analysis = None
  /\ db = <<>>
  /\ response = <<>>
  /\ NoDatabaseCall
  /\ NoCallLog

\* The statements of the handler that call execute_insert.
SavePcs == {"save_user", "save_assistant", "save_event"}

\* The row that the call of execute_insert at statement p inserts.
RowOf(p) ==
  IF p = "save_user"
  THEN [table |-> "messages", conversation_id |-> ConversationId("uuid4"),
        role |-> "user", content |-> text[1],
        sentiment |-> sentiment[1].sentiment,
        harassment_severity |-> harassment[1].severity]
  ELSE IF p = "save_assistant"
  THEN [table |-> "messages", conversation_id |-> ConversationId("uuid4"),
        role |-> "assistant", content |-> ai_response[1]]
  ELSE [table |-> "harassment_events", conversation_id |-> ConversationId("uuid4"),
        severity |-> harassment[1].severity,
        categories |-> harassment[1].categories,
        matched_patterns |-> harassment[1].matched_patterns]

\* The statement of the try block that follows the call at statement p when
\* the call returns.
AfterInsert(p) ==
  IF p = "save_user" THEN "save_assistant"
  ELSE IF p = "save_assistant" /\ harassment[1].is_harassment THEN "save_event"
  ELSE "return"

\* The record of an entry of get_connection: the statement of the handler
\* it serves, the connection it got, how far its with block came
\* ("not_entered", "running", "finished", "raised"), what became of
\* conn.commit() ("none", "done", "failed"), the calls of conn.rollback()
\* and of putconn, the rows it committed, and how it was left ("running",
\* "returned", "raised").
NewFrame(p, c) ==
  [write |-> p, conn |-> c, block |-> IF c = None THEN "not_entered" ELSE "running",
   commit |-> "none", rollbacks |-> 0, putconns |-> 0, committed |-> <<>>, exit |-> "running"]

\* The frames with the fields fs of the running one replaced.
Note(fs) ==
  [frames EXCEPT ![Len(frames)] = [k \in DOMAIN @ |-> IF k \in DOMAIN fs THEN fs[k] ELSE @[k]]]

\* get_connection, line 51: conn = get_pool().getconn().  The pool hands
\* out a connection that is not in use, or getconn raises.
DbGetConn ==
  /\ endpoint = "chat"
  /\ pc \in SavePcs
  /\ step = "idle"
  /\ \/ \E c \in Connections \ pool_used :
          /\ conn' = Some(c)
          /\ pool_used' = pool_used \cup {c}
          /\ frames' = Append(frames, NewFrame(pc, Some(c)))
          /\ step' = "cursor"
          /\ failing' = failing
     \/ /\ conn' = None
        /\ pool_used' = pool_used
        /\ frames' = Append(frames, NewFrame(pc, None))
        /\ step' = "except"
        /\ failing' = TRUE
  /\ UNCHANGED <<classifierVars, handoffVars, apiVars, txn, logVars>>

\* get_cursor, line 67: cursor = conn.cursor(...), before the try.
DbCursor ==
  /\ endpoint = "chat"
  /\ step = "cursor"
  /\ \/ /\ step' = "execute"
        /\ UNCHANGED <<failing, frames>>
     \/ /\ step' = "except"
        /\ failing' = TRUE
        /\ frames' = Note([block |-> "raised"])
  /\ UNCHANGED <<classifierVars, handoffVars, apiVars, pool_used, conn, txn, logVars>>

\* execute_insert, line 84: cur.execute(query, params).
DbExecute ==
  /\ endpoint = "chat"
  /\ step = "execute"
  /\ \/ /\ txn' = Append(txn, RowOf(pc))
        /\ step' = "fetchone"
        /\ failing' = failing
     \/ /\ txn' = txn
        /\ step' = "close"
        /\ failing' = TRUE
  /\ UNCHANGED <<classifierVars, handoffVars, apiVars, pool_used, conn, frames, logVars>>

\* execute_insert, lines 85-88: return cur.fetchone(), or None when it
\* raises ProgrammingError; another exception propagates.
DbFetchone ==
  /\ endpoint = "chat"
  /\ step = "fetchone"
  /\ \E outcome \in {"row", "ProgrammingError", "Error"} :
       failing' = (outcome = "Error")
  /\ step' = "close"
  /\ UNCHANGED <<classifierVars, handoffVars, apiVars, pool_used, conn, txn, frames, logVars>>

\* get_cursor, lines 70-71: finally cursor.close(); the with block of
\* get_connection ends here, by its end or by an exception.
DbCloseCursor ==
  /\ endpoint = "chat"
  /\ step = "close"
  /\ \/ /\ failing' = failing
        /\ step' = IF failing THEN "except" ELSE "commit"
        /\ frames' = Note([block |-> IF failing THEN "raised" ELSE "finished"])
     \/ /\ failing' = TRUE
        /\ step' = "except"
        /\ frames' = Note([block |-> "raised"])
  /\ UNCHANGED <<classifierVars, handoffVars, apiVars, pool_used, conn, txn, logVars>>

\* get_connection, line 53: conn.commit() after the with block ended
\* without an exception.
DbCommit ==
  /\ endpoint = "chat"
  /\ step = "commit"
  /\ \/ /\ db' = db \o txn
        /\ txn' = <<>>
        /\ frames' = Note([commit |-> "done", committed |-> txn])
        /\ step' = "finally"
        /\ failing' = failing
     \/ /\ UNCHANGED <<db, txn>>
        /\ frames' = Note([commit |-> "failed"])
        /\ step' = "except"
        /\ failing' = TRUE
  /\ UNCHANGED <<classifierVars, handoffVars, pool_used, conn, logVars>>
  /\ UNCHANGED <<endpoint, pc, event, api_key, ai_response, needs_handoff, ai_analysis, response>>

\* Mutant: the rollback undoes the rows of the conversation that earlier
\* calls committed, as if all writes shared one transaction.
DbExcept_shared_transaction ==
  /\ endpoint = "chat"
  /\ step = "except"
  /\ IF conn # None
     THEN /\ txn' = <<>>
          /\ db' = <<>>
          /\ frames' = Note([rollbacks |-> frames[Len(frames)].rollbacks + 1])
     ELSE UNCHANGED <<txn, db, frames>>
  /\ step' = "finally"
  /\ UNCHANGED <<classifierVars, handoffVars, pool_used, conn, failing, logVars>>
  /\ UNCHANGED <<endpoint, pc, event, api_key, ai_response, needs_handoff, ai_analysis, response>>

\* get_connection, lines 54-57: except Exception: if conn: conn.rollback();
\* raise.  Whether rollback returns or raises, an exception leaves the
\* clause and the rows of the transaction are not committed.
DbExcept ==
  /\ endpoint = "chat"
  /\ step = "except"
  /\ IF conn # None
     THEN /\ txn' = <<>>
          /\ db' = db
          /\ frames' = Note([rollbacks |-> frames[Len(frames)].rollbacks + 1])
     ELSE UNCHANGED <<txn, db, frames>>
  /\ step' = "finally"
  /\ UNCHANGED <<classifierVars, handoffVars, pool_used, conn, failing, logVars>>
  /\ UNCHANGED <<endpoint, pc, event, api_key, ai_response, needs_handoff, ai_analysis, response>>

\* Mutant: the connection is returned only after a commit; a failed call
\* keeps it.
DbFinally_return_on_success ==
  /\ endpoint = "chat"
  /\ step = "finally"
  /\ IF conn # None /\ ~failing
     THEN /\ pool_used' = pool_used \ {conn[1]}
          /\ frames' = Note([putconns |-> frames[Len(frames)].putconns + 1,
                             exit |-> "returned"])
     ELSE /\ pool_used' = pool_used
          /\ frames' = Note([exit |-> IF failing THEN "raised" ELSE "returned"])
  /\ conn' = None
  /\ pc' = IF failing THEN "return" ELSE AfterInsert(pc)
  /\ step' = "idle"
  /\ failing' = FALSE
  /\ UNCHANGED <<classifierVars, handoffVars, txn, logVars>>
  /\ UNCHANGED <<endpoint, event, api_key, ai_response, needs_handoff, ai_analysis, db, response>>

\* get_connection, lines 58-60: finally: if conn: get_pool().putconn(conn),
\* and the call of execute_insert is over: it returns to the next statement
\* of the try block of the handler, or its exception reaches the except
\* clause of lines 230-231, which logs it and leaves the block.
DbFinally ==
  /\ endpoint = "chat"
  /\ step = "finally"
  /\ IF conn # None
     THEN /\ pool_used' = pool_used \ {conn[1]}
          /\ frames' = Note([putconns |-> frames[Len(frames)].putconns + 1,
                             exit |-> IF failing THEN "raised" ELSE "returned"])
     ELSE /\ pool_used' = pool_used
          /\ frames' = Note([exit |-> IF failing THEN "raised" ELSE "returned"])
  /\ conn' = None
  /\ pc' = IF failing THEN "return" ELSE AfterInsert(pc)
  /\ step' = "idle"
  /\ failing' = FALSE
  /\ UNCHANGED <<classifierVars, handoffVars, txn, logVars>>
  /\ UNCHANGED <<endpoint, event, api_key, ai_response, needs_handoff, ai_analysis, db, response>>

NextDb ==
  \/ ChatParse
  \/ ChatDetect
  \/ ChatSentiment
  \/ ChatRespond
  \/ ChatHandoff
  \/ DbGetConn
  \/ DbCursor
  \/ DbExecute
  \/ DbFetchone
  \/ DbCloseCursor
  \/ DbCommit
  \/ DbExcept
  \/ DbFinally
  \/ ChatReturn

SpecDb == InitDb /\ [][NextDb]_vars

\* ------------------------------------------------------------------------
\* A caller of the four components
\*
\* harassment_detector.py, sentiment_analyzer.py, _calculate_combined_risk
\* and handoff.py keep their catalogs in module-level lists that no
\* statement of the repository writes, and every other name they use is a
\* local of the call; build_handoff_context reads datetime.utcnow().  A caller
\* makes calls one after the other, of any component, with any arguments.
\* ------------------------------------------------------------------------

\* The longest sequence of calls.
MaxCalls == 3

\* The arguments of the calls of the two classifiers.
PureTexts == {None, Some(Fragments[1])}

\* The arguments of the calls of the risk fusion.
PureRiskArgs == {<<"high", "anger">>, <<"unknown", "anger">>}

\* The arguments of the calls of the handoff builder.
PureHandoffCalls ==
  { [conversation_id |-> "conv-1", messages |-> m, sentiment_history |-> h,
     harassment_detected |-> FALSE, harassment_severity |-> None] :
      m \in {<<[role |-> "user", content |-> Transcripts[1]]>>},
      h \in {None, Some(<<"anger">>)} }

InitPure ==
  /\ NoClassification
  /\ NoHandoff
  /\ NoInvocation
  /\ NoDatabaseCall
  /\ NoCallLog

\* detect_harassment(text)
CallDetectHarassment ==
  /\ Len(calls) < MaxCalls
  /\ \E t \in PureTexts :
       calls' = Append(calls, [component |-> "detect_harassment", args |-> t,
                               result |-> detect_harassment(t)])
  /\ UNCHANGED <<classifierVars, handoffVars, apiVars, poolVars>>

\* analyze_sentiment(text)
CallAnalyzeSentiment ==
  /\ Len(calls) < MaxCalls
  /\ \E t \in PureTexts :
       calls' = Append(calls, [component |-> "analyze_sentiment", args |-> t,
                               result |-> analyze_sentiment(t)])
  /\ UNCHANGED <<classifierVars, handoffVars, apiVars, poolVars>>

\* _calculate_combined_risk(harassment_severity, sentiment)
CallCombinedRisk ==
  /\ Len(calls) < MaxCalls
  /\ \E a \in PureRiskArgs :
       calls' = Append(calls, [component |-> "_calculate_combined_risk", args |-> a,
                               result |-> _calculate_combined_risk(a[1], a[2])])
  /\ UNCHANGED <<classifierVars, handoffVars, apiVars, poolVars>>

\* The sentiment_history of the latest earlier call of the builder.
EarlierHistory ==
  LET earlier == SelectSeq(calls, LAMBDA c : c.component = "build_handoff_context")
  IN IF earlier = <<>> THEN <<>> ELSE earlier[Len(earlier)].result.sentiment_history

\* Mutant: the builder keeps one list for sentiment_history across calls
\* and extends it with the history of each call.
CallBuildHandoff_shared_history ==
  /\ Len(calls) < MaxCalls
  /\ \E a \in PureHandoffCalls :
       calls' = Append(calls, [component |-> "build_handoff_context", args |-> a,
                               result |-> build_handoff_context(a.conversation_id, a.messages, None, Some(EarlierHistory \o (IF a.sentiment_history = None THEN <<>> ELSE a.sentiment_history[1])), a.harassment_detected, a.harassment_severity, TRUE, clock)])
  /\ clock' = clock + 1
  /\ UNCHANGED <<classifierVars, call, handoff, apiVars, poolVars>>

\* build_handoff_context(conversation_id, messages, ...), which reads the
\* clock for its handoff_timestamp.
CallBuildHandoff ==
  /\ Len(calls) < MaxCalls
  /\ \E a \in PureHandoffCalls :
       calls' = Append(calls, [component |-> "build_handoff_context", args |-> a,
                               result |-> build_handoff_context(a.conversation_id, a.messages, None, a.sentiment_history, a.harassment_detected, a.harassment_severity, TRUE, clock)])
  /\ clock' = clock + 1
  /\ UNCHANGED <<classifierVars, call, handoff, apiVars, poolVars>>

NextPure ==
  \/ CallDetectHarassment
  \/ CallAnalyzeSentiment
  \/ CallCombinedRisk
  \/ CallBuildHandoff

SpecPure == InitPure /\ [][NextPure]_vars

\* ------------------------------------------------------------------------
\* Properties
\* ------------------------------------------------------------------------

\* The message is None, empty or whitespace only.
BlankInput == text = None \/ \A i \in DOMAIN text[1] : text[1][i] \in Whitespace

\* The tags of the rules of a group that match the message.
Matching(patterns) ==
  {patterns[i].pattern : i \in {j \in DOMAIN patterns : re_search(patterns[j], text[1])}}

Range(seq) == {seq[i] : i \in DOMAIN seq}

\* C1: for a non-blank text the severity is the highest tier with at least
\* one matching pattern (critical > high > medium > low), none when no tier
\* matches, and matched_patterns lists the matching rules of every tier.
C1_HighestTierWins ==
  (harassment # <<>> /\ ~BlankInput) =>
    LET r == harassment[1]
        c == Matching(CRITICAL_PATTERNS)
        h == Matching(HIGH_PATTERNS)
        m == Matching(MEDIUM_PATTERNS)
        l == Matching(LOW_PATTERNS)
    IN /\ (c # {}) => r.severity = "critical"
       /\ (c = {} /\ h # {}) => r.severity = "high"
       /\ (c = {} /\ h = {} /\ m # {}) => r.severity = "medium"
       /\ (c = {} /\ h = {} /\ m = {} /\ l # {}) => r.severity = "low"
       /\ (c = {} /\ h = {} /\ m = {} /\ l = {}) => r.severity = "none"
       /\ Range(r.matched_patterns) = c \cup h \cup m \cup l

\* A critical and a low pattern both matched: severity critical, both listed.
C1_Witness ==
  /\ harassment # <<>>
  /\ harassment[1].severity = "critical"
  /\ {"re_death_threat", "re_frustration"} \subseteq Range(harassment[1].matched_patterns)

\* C2: is_harassment is true exactly for severity critical, high or medium;
\* a text matching only low-tier patterns gets low and is_harassment false;
\* a text matching a death-threat pattern gets critical and is_harassment true.
C2_HarassmentFlag ==
  harassment # <<>> =>
    LET r == harassment[1] IN
    /\ r.is_harassment <=> r.severity \in {"critical", "high", "medium"}
    /\ ~BlankInput =>
         /\ ( /\ Matching(LOW_PATTERNS) # {}
              /\ Matching(CRITICAL_PATTERNS) \cup Matching(HIGH_PATTERNS)
                   \cup Matching(MEDIUM_PATTERNS) = {} )
              => (r.severity = "low" /\ ~r.is_harassment)
         /\ (re_search(CRITICAL_PATTERNS[1], text[1]) \/ re_search(CRITICAL_PATTERNS[2], text[1]))
              => (r.severity = "critical" /\ r.is_harassment)

\* Only a low-tier rule matched: reported as low, not as harassment.
C2_Witness ==
  /\ harassment # <<>>
  /\ harassment[1].matched_patterns = <<"re_frustration">>
  /\ harassment[1].severity = "low"
  /\ ~harassment[1].is_harassment

\* C3: for a non-blank text the confidence depends only on the number of
\* matching rules over the four tiers: 0 -> 0.9, 1 -> 0.7, 2 or 3 -> 0.85,
\* 4 or more -> 0.95.
C3_ConfidenceSteps ==
  (harassment # <<>> /\ ~BlankInput) =>
    LET n == Cardinality(Matching(CRITICAL_PATTERNS)) + Cardinality(Matching(HIGH_PATTERNS))
               + Cardinality(Matching(MEDIUM_PATTERNS)) + Cardinality(Matching(LOW_PATTERNS))
        conf == harassment[1].confidence
    IN /\ (n = 0) => conf = 900
       /\ (n = 1) => conf = 700
       /\ (n = 2 \/ n = 3) => conf = 850
       /\ (n >= 4) => conf = 950

\* Exactly three rules matched (the upper edge of the middle step).
C3_Witness ==
  /\ harassment # <<>>
  /\ Len(harassment[1].matched_patterns) = 3
  /\ harassment[1].confidence = 850

\* C4: for None, empty or whitespace-only text detect_harassment returns
\* is_harassment false, severity none, confidence 1.0 and no patterns or
\* categories, and analyze_sentiment returns neutral, confidence 1.0, scores
\* {0, 1, 0, 0}, trigger_alert false and no keywords.
C4_BlankInput ==
  BlankInput =>
    /\ harassment # <<>> =>
         /\ ~harassment[1].is_harassment
         /\ harassment[1].severity = "none"
         /\ harassment[1].confidence = 1000
         /\ harassment[1].matched_patterns = <<>>
         /\ harassment[1].categories = <<>>
    /\ sentiment # <<>> =>
         /\ sentiment[1].sentiment = "neutral"
         /\ sentiment[1].confidence = 1000
         /\ sentiment[1].scores = [positive |-> 0, neutral |-> 1000, negative |-> 0, anger |-> 0]
         /\ ~sentiment[1].trigger_alert
         /\ sentiment[1].keywords_found = <<>>

\* Both classifiers have returned for a whitespace-only message.
C4_Witness ==
  /\ text # None
  /\ Len(text[1]) > 0
  /\ BlankInput
  /\ harassment # <<>>
  /\ sentiment # <<>>

\* The number of keywords of a list that occur in the message.
KeywordCount(keywords) ==
  LET folded == LowerStr(text[1])
  IN Cardinality({k \in DOMAIN keywords : Contains(folded, LowerStr(keywords[k]))})

\* The number of "!" and full-width "！" in the message.
Marks == Count(text[1], 33) + Count(text[1], 65281)

\* The seven rules of the decision tree as a table: condition, label and
\* base confidence of rule k for the counts (p, n, a).
RuleHolds(k, p, n, a) ==
  CASE k = 1 -> a >= 2 \/ (a >= 1 /\ n >= 1)
    [] k = 2 -> a >= 1
    [] k = 3 -> n > p /\ n >= 2
    [] k = 4 -> n > p
    [] k = 5 -> p > n /\ p >= 2
    [] k = 6 -> p > 0
    [] k = 7 -> TRUE

FirstRule(p, n, a) ==
  CHOOSE k \in 1..7 : RuleHolds(k, p, n, a) /\ \A j \in 1..(k - 1) : ~RuleHolds(j, p, n, a)

RuleLabel ==
  <<"anger", "anger", "negative", "negative", "positive", "positive", "neutral">>

RuleConfidence(k, p, n, a) ==
  CASE k = 1 -> Min(950, 600 + 100 * a)
    [] k = 2 -> 700
    [] k = 3 -> Min(900, 500 + 100 * n)
    [] k = 4 -> 600
    [] k = 5 -> Min(900, 500 + 100 * p)
    [] k = 6 -> 600
    [] k = 7 -> 800

\* The base confidence the tree gives the message.
BaseConfidence ==
  LET p == KeywordCount(POSITIVE_KEYWORDS)
      n == KeywordCount(NEGATIVE_KEYWORDS)
      a == KeywordCount(ANGER_KEYWORDS)
  IN RuleConfidence(FirstRule(p, n, a), p, n, a)

\* C5: for a non-blank text with counts (pos, neg, ang) the label and the
\* base confidence are those of the first rule of the seven-rule tree that
\* applies (the returned confidence is the base, raised by the booster where
\* it applies); a tie pos = neg > 0 with ang = 0 is positive with 0.6.
C5_DecisionTree ==
  (sentiment # <<>> /\ ~BlankInput) =>
    LET p == KeywordCount(POSITIVE_KEYWORDS)
        n == KeywordCount(NEGATIVE_KEYWORDS)
        a == KeywordCount(ANGER_KEYWORDS)
        k == FirstRule(p, n, a)
        base == RuleConfidence(k, p, n, a)
        r == sentiment[1]
    IN /\ r.sentiment = RuleLabel[k]
       /\ r.confidence = IF Marks >= 3 /\ RuleLabel[k] \in {"negative", "anger"}
                         THEN Min(980, base + 100) ELSE base
       /\ (p = n /\ p > 0 /\ a = 0) => (r.sentiment = "positive" /\ r.confidence = 600)

\* A tie of positive and negative keywords without anger was classified.
C5_Witness ==
  /\ sentiment # <<>>
  /\ ~BlankInput
  /\ KeywordCount(POSITIVE_KEYWORDS) = KeywordCount(NEGATIVE_KEYWORDS)
  /\ KeywordCount(POSITIVE_KEYWORDS) > 0
  /\ KeywordCount(ANGER_KEYWORDS) = 0
  /\ sentiment[1].sentiment = "positive"

\* C6: a text with at least two distinct anger keywords is anger with
\* trigger_alert true, whatever its positive and negative counts.
C6_TwoAngerKeywords ==
  (sentiment # <<>> /\ ~BlankInput /\ KeywordCount(ANGER_KEYWORDS) >= 2) =>
    (sentiment[1].sentiment = "anger" /\ sentiment[1].trigger_alert)

\* Two anger keywords outnumbered by positive ones, still anger.
C6_Witness ==
  /\ sentiment # <<>>
  /\ ~BlankInput
  /\ KeywordCount(ANGER_KEYWORDS) = 2
  /\ KeywordCount(POSITIVE_KEYWORDS) > 2
  /\ sentiment[1].sentiment = "anger"
  /\ sentiment[1].trigger_alert

\* C7: in every SentimentResult, blank input included, trigger_alert is true
\* exactly when the sentiment is anger; the booster never sets it otherwise.
C7_AlertIffAnger ==
  \A r \in Range(sentiment) \cup Range(excited) :
    r.trigger_alert <=> r.sentiment = "anger"

\* A negative result of a message with three marks: boosted, no alert.
C7_Witness ==
  /\ sentiment # <<>>
  /\ ~BlankInput
  /\ Marks >= 3
  /\ sentiment[1].sentiment = "negative"
  /\ sentiment[1].confidence = Min(980, BaseConfidence + 100)
  /\ ~sentiment[1].trigger_alert

ScoreSum(r) == r.scores.positive + r.scores.neutral + r.scores.negative + r.scores.anger

\* C8: the four rounded scores sum to 1.0 within 0.01, also when the booster
\* has added 0.1 to the raw anger score.
C8_ScoresSumToOne ==
  \A r \in Range(sentiment) \cup Range(excited) :
    ScoreSum(r) >= 990 /\ ScoreSum(r) <= 1010

\* A boosted negative result: no anger keyword, yet a positive anger score.
C8_Witness ==
  /\ sentiment # <<>>
  /\ ~BlankInput
  /\ Marks >= 3
  /\ KeywordCount(ANGER_KEYWORDS) = 0
  /\ sentiment[1].sentiment = "negative"
  /\ sentiment[1].scores.anger > 0

\* C9: when the dominant sentiment of a text is negative or anger, the text
\* with "！！！！！" appended has the same label, the confidence
\* min(0.98, base + 0.1), and a confidence not below that of the text.
C9_ExclamationBoost ==
  (sentiment # <<>> /\ excited # <<>> /\ sentiment[1].sentiment \in {"negative", "anger"}) =>
    /\ excited[1].sentiment = sentiment[1].sentiment
    /\ excited[1].confidence = Min(980, BaseConfidence + 100)
    /\ excited[1].confidence >= sentiment[1].confidence

\* The marks raised the confidence of an anger result.
C9_Witness ==
  /\ sentiment # <<>>
  /\ excited # <<>>
  /\ Marks < 3
  /\ sentiment[1].sentiment = "anger"
  /\ excited[1].confidence > sentiment[1].confidence

RiskLevels == {"critical", "high", "medium", "low", "none"}

\* C10: each of the 20 pairs severity x sentiment has its own cell (the
\* default is not used) holding one of the five risk levels, with
\* (critical, anger) -> critical, (none, positive) -> none and
\* (high, positive) -> medium; every other pair yields low.
C10_RiskTotal ==
  risk # <<>> =>
    LET h == risk[1].harassment_severity
        s == risk[1].sentiment
        out == risk[1].combined_risk
    IN /\ (h \in Severity /\ s \in Sentiment) =>
            (<<h, s>> \in DOMAIN risk_matrix /\ out = risk_matrix[<<h, s>>] /\ out \in RiskLevels)
       /\ (h = "critical" /\ s = "anger") => out = "critical"
       /\ (h = "none" /\ s = "positive") => out = "none"
       /\ (h = "high" /\ s = "positive") => out = "medium"
       /\ ~(h \in Severity /\ s \in Sentiment) => out = "low"

\* The matrix was consulted for (high, positive).
C10_Witness ==
  /\ risk # <<>>
  /\ risk[1].harassment_severity = "high"
  /\ risk[1].sentiment = "positive"
  /\ risk[1].combined_risk = "medium"

\* The order none < low < medium < high < critical of the levels.
LevelRank == "none" :> 0 @@ "low" :> 1 @@ "medium" :> 2 @@ "high" :> 3 @@ "critical" :> 4

\* The level a call with anger returned lies `steps` above its severity.
AngerRaisesBy(steps) ==
  LevelRank[risk[1].combined_risk] = LevelRank[risk[1].harassment_severity] + steps

\* C11 as stated: for every severity below critical, the risk of
\* (severity, anger) is exactly one level above the severity.
C11_AngerOneStep ==
  (risk # <<>> /\ risk[1].sentiment = "anger"
     /\ risk[1].harassment_severity \in {"high", "medium", "low", "none"}) =>
    AngerRaisesBy(1)

\* C11, amended: for the severities high, medium and low the risk of
\* (severity, anger) is exactly one level above the severity; for none it is
\* medium, two levels above; for critical it stays critical.
C11_AngerEscalation ==
  (risk # <<>> /\ risk[1].sentiment = "anger" /\ risk[1].harassment_severity \in Severity) =>
    /\ risk[1].harassment_severity \in {"high", "medium", "low"} => AngerRaisesBy(1)
    /\ risk[1].harassment_severity = "none" =>
         (risk[1].combined_risk = "medium" /\ AngerRaisesBy(2))
    /\ risk[1].harassment_severity = "critical" => risk[1].combined_risk = "critical"

\* An angry message without any harassment rule was rated medium.
C11_Witness ==
  /\ risk # <<>>
  /\ harassment # <<>>
  /\ sentiment # <<>>
  /\ harassment[1].severity = "none"
  /\ sentiment[1].sentiment = "anger"
  /\ risk[1].combined_risk = "medium"

\* ------------------------------------------------------------------------
\* Claims about the handoff builder (SpecHandoff)
\* ------------------------------------------------------------------------

\* The sentiment_history of the call, absent read as empty.
GivenHistory == IF call[1].sentiment_history = None THEN <<>> ELSE call[1].sentiment_history[1]

\* How often a label occurs in the sentiment_history of the call.
Occurrences(label) == Cardinality({i \in DOMAIN GivenHistory : GivenHistory[i] = label})

\* The call reports harassment of severity critical or high.
SevereHarassment ==
  /\ call[1].harassment_detected
  /\ call[1].harassment_severity # None
  /\ call[1].harassment_severity[1] \in {"critical", "high"}

\* C12: build_handoff_context returns priority critical if and only if
\* harassment_detected is true and harassment_severity is critical or high,
\* whatever the sentiment_history and the number of messages.
C12_CriticalIffSevereHarassment ==
  handoff # <<>> => (handoff[1].priority = "critical" <=> SevereHarassment)

\* Harassment of severity high alone, in an empty conversation, gave critical.
C12_Witness ==
  /\ handoff # <<>>
  /\ call[1].harassment_detected
  /\ call[1].harassment_severity = Some("high")
  /\ call[1].messages = <<>>
  /\ GivenHistory = <<>>
  /\ handoff[1].priority = "critical"

\* C13: when the critical rule does not apply, the priority is high exactly
\* when harassment_detected is true, or the history holds an anger, or the
\* conversation has more than 10 messages of any role, or the history holds
\* three negative; otherwise it is normal.
C13_HighOrNormal ==
  (handoff # <<>> /\ ~SevereHarassment) =>
    handoff[1].priority =
      IF \/ call[1].harassment_detected
         \/ Occurrences("anger") >= 1
         \/ Len(call[1].messages) > 10
         \/ Occurrences("negative") >= 3
      THEN "high" ELSE "normal"

\* Ten messages and two negative turns: still normal.
C13_Witness ==
  /\ handoff # <<>>
  /\ ~call[1].harassment_detected
  /\ Len(call[1].messages) = 10
  /\ Occurrences("negative") = 2
  /\ Occurrences("anger") = 0
  /\ handoff[1].priority = "normal"

\* C14 as stated: with an empty or absent sentiment_history and
\* harassment_detected false the priority is normal for every message list.
C14_EmptyHistoryNormal ==
  (handoff # <<>> /\ GivenHistory = <<>> /\ ~call[1].harassment_detected) =>
    handoff[1].priority = "normal"

\* C14, amended: with an empty or absent sentiment_history and
\* harassment_detected false the priority is normal for a list of at most 10
\* messages, and high for a longer one.
C14_EmptyHistoryByLength ==
  (handoff # <<>> /\ GivenHistory = <<>> /\ ~call[1].harassment_detected) =>
    handoff[1].priority = IF Len(call[1].messages) <= 10 THEN "normal" ELSE "high"

\* No sentiment_history was given for a conversation of 11 messages.
C14_Witness ==
  /\ handoff # <<>>
  /\ call[1].sentiment_history = None
  /\ ~call[1].harassment_detected
  /\ Len(call[1].messages) = 11
  /\ handoff[1].priority = "high"

\* Message m of the call is the customer's and matches category c.
CustomerRaised(c, m) ==
  /\ call[1].messages[m].role = "user"
  /\ \E p \in DOMAIN issue_patterns[c].patterns :
       re_search_cased(issue_patterns[c].patterns[p], call[1].messages[m].content)

\* The customer messages of the call that match the category of this name.
RaisedIn(category) ==
  {m \in DOMAIN call[1].messages :
     \E c \in DOMAIN issue_patterns :
       issue_patterns[c].category = category /\ CustomerRaised(c, m)}

\* The first of them.
FirstRaised(category) == CHOOSE m \in RaisedIn(category) : \A n \in RaisedIn(category) : m <= n

\* C15: detected_issues holds only categories that a message of role user
\* matched, each category at most once, in the order of the first user
\* message that matched them.
C15_IssuesOfCustomerInOrder ==
  handoff # <<>> =>
    LET issues == handoff[1].detected_issues IN
    /\ \A k \in DOMAIN issues : RaisedIn(issues[k]) # {}
    /\ \A j, k \in DOMAIN issues : j < k => issues[j] # issues[k]
    /\ \A j, k \in DOMAIN issues : j < k => FirstRaised(issues[j]) <= FirstRaised(issues[k])

\* The assistant wrote of a late delivery, then the customer asked for a
\* return: only the return is an issue.
C15_Witness ==
  /\ handoff # <<>>
  /\ Len(call[1].messages) = 2
  /\ call[1].messages[1] = [role |-> "assistant", content |-> Transcripts[3]]
  /\ call[1].messages[2] = [role |-> "user", content |-> Transcripts[5]]
  /\ handoff[1].detected_issues = <<"refund">>

\* C16: for the single user message "注文番号 ORD-12345 の商品が届きません"
\* order_numbers is exactly ["ORD-12345"] and detected_issues holds the
\* shipping category.
C16_OrderAndShipping ==
  (handoff # <<>> /\ call[1].messages = <<[role |-> "user", content |-> Transcripts[1]]>>) =>
    /\ handoff[1].order_numbers = <<<<79, 82, 68, 45, 49, 50, 51, 52, 53>>>>
    /\ \E k \in DOMAIN handoff[1].detected_issues : handoff[1].detected_issues[k] = "shipping"

\* ------------------------------------------------------------------------
\* Claims about the Lambda handlers (SpecApi)
\* ------------------------------------------------------------------------

\* The invocation got past the two 400 answers and has returned.
Answered == pc = "done" /\ text # None

\* The chat handler is past its step 4.
PastHandoffStep == text # None /\ pc \in {"save_user", "save_assistant", "save_event", "return", "done"}

\* The message of the request as the handler reads it.
RequestMessage == Strip(event[1].message)

\* C17: in the chat handler both classifiers have run on the message before
\* a handoff is built; a handoff context is built exactly when the
\* harassment result is harassment of severity critical or high or the
\* sentiment result has trigger_alert set, over the supplied history
\* followed by the current user message; otherwise the response's handoff
\* is null.
C17_HandoffExactlyOnAlert ==
  endpoint = "chat" =>
    /\ (pc = "handoff" \/ handoff # <<>>) =>
         /\ harassment = <<detect_harassment(Some(RequestMessage))>>
         /\ sentiment = <<analyze_sentiment(Some(RequestMessage))>>
    /\ PastHandoffStep =>
         (handoff # <<>> <=>
            \/ (harassment[1].is_harassment /\ harassment[1].severity \in {"critical", "high"})
            \/ sentiment[1].trigger_alert)
    /\ handoff # <<>> =>
         call[1].messages = event[1].history \o <<[role |-> "user", content |-> RequestMessage]>>
    /\ Answered => response[1].body.handoff = handoff

\* The anger alert alone, without harassment, built a handoff over a
\* history of an earlier turn, and the response carries it.
C17_Witness ==
  /\ endpoint = "chat"
  /\ Answered
  /\ ~harassment[1].is_harassment
  /\ sentiment[1].trigger_alert
  /\ ~needs_handoff
  /\ Len(event[1].history) = 2
  /\ Len(call[1].messages) = 3
  /\ response[1].body.handoff # <<>>

\* The sentiment labels of the customer's turns of the conversation handed
\* to the builder, in order.
LabelsOfTurns ==
  LET turns == SelectSeq(call[1].messages, LAMBDA m : m.role = "user")
  IN [i \in DOMAIN turns |-> analyze_sentiment(Some(turns[i].content)).sentiment]

\* C18: the sentiment_history that the chat handler hands to the builder
\* holds the sentiment label of every user turn of the conversation so far,
\* in order, not only the label of the current message.
C18_FullSentimentHistory ==
  (endpoint = "chat" /\ handoff # <<>>) =>
    call[1].sentiment_history = Some(LabelsOfTurns)

\* C19: a failing database write does not change what a handler returns:
\* whatever rows were committed, the answer has status 200 and carries the
\* harassment and sentiment results of the message, and for chat the reply
\* and the handoff built before the writes, for analyze the combined risk;
\* the exception does not reach the caller.
C19_WriteFailureNotVisible ==
  (endpoint # "none" /\ Answered) =>
    /\ response # <<>>
    /\ response[1].statusCode = 200
    /\ response[1].body.harassment = detect_harassment(Some(RequestMessage))
    /\ response[1].body.sentiment = analyze_sentiment(Some(RequestMessage))
    /\ endpoint = "chat" =>
         /\ response[1].body.response = ai_response[1]
         /\ response[1].body.handoff = handoff
    /\ endpoint = "analyze" =>
         response[1].body.combined_risk =
           _calculate_combined_risk(response[1].body.harassment.severity,
                                    response[1].body.sentiment.sentiment)

\* The first insert of a chat turn with harassment raised: no row was
\* committed, the answer is the 200 one with its handoff.
C19_Witness ==
  /\ endpoint = "chat"
  /\ Answered
  /\ harassment[1].is_harassment
  /\ db = <<>>
  /\ response[1].statusCode = 200
  /\ response[1].body.handoff # <<>>

\* C20: in the analyze handler the harassment result, the sentiment result,
\* combined_risk and the alert are those of the rules, whether the AI
\* augmentation is disabled, unconfigured, fails or returns a verdict that
\* contradicts them; the verdict shows only in ai_analysis and in the
\* logged ai_enhanced flag, and without a verdict ai_analysis is null in a
\* 200 answer.
C20_AiAdvisoryOnly ==
  (endpoint = "analyze" /\ Answered) =>
    LET body == response[1].body
        h == detect_harassment(Some(RequestMessage))
        s == analyze_sentiment(Some(RequestMessage))
    IN /\ response[1].statusCode = 200
       /\ body.harassment = h
       /\ body.sentiment = s
       /\ body.combined_risk = risk_matrix[<<h.severity, s.sentiment>>]
       /\ body.alert = Alert(h, s)
       /\ body.ai_analysis = ai_analysis
       /\ (~event[1].use_ai \/ ~api_key) => body.ai_analysis = None
       /\ \A i \in DOMAIN db : db[i].ai_enhanced = (body.ai_analysis # None)

\* The API called a harmless message critical harassment in anger: the
\* verdict is reported and logged, the risk stays that of the rules.
C20_Witness ==
  /\ endpoint = "analyze"
  /\ Answered
  /\ ai_analysis = Some([is_harassment |-> TRUE, severity |-> "critical", sentiment |-> "anger"])
  /\ response[1].body.harassment.severity = "none"
  /\ response[1].body.sentiment.sentiment = "positive"
  /\ response[1].body.combined_risk = "none"
  /\ response[1].body.alert = None
  /\ Len(db) = 1
  /\ db[1].ai_enhanced

\* ------------------------------------------------------------------------
\* Monotonicity of the risk matrix
\* ------------------------------------------------------------------------

\* The order anger, negative, neutral, positive of the sentiment labels.
SentimentRank == "anger" :> 0 @@ "negative" :> 1 @@ "neutral" :> 2 @@ "positive" :> 3

\* The rank of the level the fusion returns for (severity, label).
RiskRank(severity, label) == LevelRank[_calculate_combined_risk(severity, label)]

\* C22: the risk matrix is monotone in both arguments.  For the pair a call
\* was made with, every higher severity with the same sentiment yields a risk
\* that is not lower, and every sentiment later in the order anger, negative,
\* neutral, positive with the same severity yields a risk that is not higher.
C22_MatrixMonotone ==
  (risk # <<>> /\ risk[1].harassment_severity \in Severity
     /\ risk[1].sentiment \in Sentiment) =>
    LET h == risk[1].harassment_severity
        s == risk[1].sentiment
        r == LevelRank[risk[1].combined_risk]
    IN /\ \A h2 \in Severity :
            LevelRank[h2] > LevelRank[h] => RiskRank(h2, s) >= r
       /\ \A s2 \in Sentiment :
            SentimentRank[s2] > SentimentRank[s] => RiskRank(h, s2) <= r

\* The matrix was consulted for (low, neutral), which has higher severities
\* above it and a later sentiment beside it.
C22_Witness ==
  /\ risk # <<>>
  /\ risk[1].harassment_severity = "low"
  /\ risk[1].sentiment = "neutral"
  /\ risk[1].combined_risk = "low"

\* ------------------------------------------------------------------------
\* Priority of the handoffs of the chat handler
\* ------------------------------------------------------------------------

\* C23: every handoff context the chat handler produces has priority
\* critical or high, never normal: critical when the harassment result is
\* harassment of severity critical or high, and high when only the anger
\* alert triggered it; the response carries the same priority.
C23_ChatHandoffNeverNormal ==
  (endpoint = "chat" /\ handoff # <<>>) =>
    /\ handoff[1].priority \in {"critical", "high"}
    /\ (harassment[1].is_harassment /\ harassment[1].severity \in {"critical", "high"}) =>
         handoff[1].priority = "critical"
    /\ ~(harassment[1].is_harassment /\ harassment[1].severity \in {"critical", "high"}) =>
         (sentiment[1].trigger_alert /\ handoff[1].priority = "high")
    /\ Answered => response[1].body.handoff[1].priority = handoff[1].priority

\* The anger alert alone, on a message that is no harassment, built a
\* handoff of priority high over a conversation of at most ten messages.
C23_Witness ==
  /\ endpoint = "chat"
  /\ Answered
  /\ handoff # <<>>
  /\ ~harassment[1].is_harassment
  /\ sentiment[1].trigger_alert
  /\ handoff[1].metadata.total_messages <= 10
  /\ handoff[1].priority = "high"

\* ------------------------------------------------------------------------
\* The alert of the analyze response
\* ------------------------------------------------------------------------

\* C24: the analyze response carries an alert exactly when the sentiment
\* result has its alert set or the harassment result is harassment of
\* severity critical or high; harassment of that severity always gives the
\* single alert of type harassment_detected with the harassment severity,
\* also when the anger alert is set; the anger alert alone gives
\* anger_detected.
C24_AlertOfAnalyze ==
  (endpoint = "analyze" /\ Answered /\ response[1].statusCode = 200) =>
    LET body == response[1].body
        angry == body.sentiment.trigger_alert
        severe == body.harassment.is_harassment
                    /\ body.harassment.severity \in {"critical", "high"}
    IN /\ body.harassment = harassment[1]
       /\ body.sentiment = sentiment[1]
       /\ body.alert # None <=> (angry \/ severe)
       /\ severe => /\ body.alert[1].type = "harassment_detected"
                    /\ body.alert[1].severity = body.harassment.severity
       /\ (angry /\ ~severe) => /\ body.alert[1].type = "anger_detected"
                                /\ body.alert[1].severity = "high"

\* Both conditions held: an angry message that is harassment of severity
\* critical or high was answered with the harassment alert.
C24_Witness ==
  /\ endpoint = "analyze"
  /\ Answered
  /\ response[1].statusCode = 200
  /\ sentiment[1].trigger_alert
  /\ harassment[1].is_harassment
  /\ harassment[1].severity \in {"critical", "high"}
  /\ response[1].body.alert # None
  /\ response[1].body.alert[1].type = "harassment_detected"

\* ------------------------------------------------------------------------
\* The connections of get_connection
\* ------------------------------------------------------------------------

\* The entry of get_connection with record f is over.
Left(f) == f.exit # "running"

C25_WitnessNoConnection ==
  /\ frames # <<>>
  /\ frames[Len(frames)].conn = None
  /\ frames[Len(frames)].exit = "raised"

\* ------------------------------------------------------------------------
\* The writes of the chat handler
\* ------------------------------------------------------------------------

\* The classifiers and the reply of the invocation are known.
Replied == text # None /\ harassment # <<>> /\ sentiment # <<>> /\ ai_response # <<>>

\* The statements that write, in the order of the try block.
WriteOrder == <<"save_user", "save_assistant", "save_event">>

\* The rows that the first n entries of get_connection committed, in order.
RECURSIVE CommittedBy(_)
CommittedBy(n) == IF n = 0 THEN <<>> ELSE CommittedBy(n - 1) \o frames[n].committed

\* C26: the writes of the chat handler happen in the order user message,
\* assistant reply, harassment event, one entry of get_connection each,
\* which commits that row alone; every write before the last one made has
\* committed, so the first failing write is the last; the harassment event
\* is written only when harassment was detected and both message rows are
\* committed; and the database holds every row that a write committed,
\* whatever failed later.
C26_WritesInOrder ==
  (endpoint = "chat" /\ frames # <<>>) =>
    /\ Replied
    /\ Len(frames) <= 3
    /\ \A i \in DOMAIN frames :
         /\ frames[i].write = WriteOrder[i]
         /\ frames[i].committed =
              IF frames[i].commit = "done" THEN <<RowOf(WriteOrder[i])>> ELSE <<>>
         /\ i < Len(frames) => (frames[i].commit = "done" /\ frames[i].exit = "returned")
    /\ Len(frames) = 3 => harassment[1].is_harassment
    /\ db = CommittedBy(Len(frames))
    /\ \A i \in DOMAIN db :
         db[i].table = "harassment_events" =>
           /\ harassment[1].is_harassment
           /\ i = 3
           /\ db[1] = RowOf("save_user")
           /\ db[2] = RowOf("save_assistant")
    /\ pc \in {"return", "done"} =>
         \/ frames[Len(frames)].exit = "raised"
         \/ Len(frames) = IF harassment[1].is_harassment THEN 3 ELSE 2

\* The write of the harassment event failed after its statement was
\* executed and was rolled back; both message rows, committed before,
\* are still in the database when the handler answers.
C26_Witness ==
  /\ endpoint = "chat"
  /\ pc = "done"
  /\ Len(frames) = 3
  /\ frames[3].block = "raised"
  /\ frames[3].rollbacks = 1
  /\ Len(db) = 2
  /\ db[1].role = "user"
  /\ db[2].role = "assistant"

\* A failure of the first write: nothing is written afterwards.
C26_WitnessFirstFails ==
  /\ endpoint = "chat"
  /\ pc = "done"
  /\ Len(frames) = 1
  /\ frames[1].exit = "raised"
  /\ db = <<>>

\* ------------------------------------------------------------------------
\* Purity of the components
\* ------------------------------------------------------------------------

\* Calls i and j of the log are calls of one component with equal arguments.
SameCall(i, j) ==
  /\ calls[i].component = calls[j].component
  /\ calls[i].args = calls[j].args

\* The result of a call without the reading of the clock.
Timeless(c) ==
  IF c.component = "build_handoff_context"
  THEN [c.result EXCEPT !.metadata = [@ EXCEPT !.handoff_timestamp = 0]]
  ELSE c.result

\* What a component returns for the arguments of call c when nothing was
\* called before and the clock reads 0.
Fresh(c) ==
  IF c.component = "detect_harassment" THEN detect_harassment(c.args)
  ELSE IF c.component = "analyze_sentiment" THEN analyze_sentiment(c.args)
  ELSE IF c.component = "_calculate_combined_risk"
  THEN _calculate_combined_risk(c.args[1], c.args[2])
  ELSE build_handoff_context(c.args.conversation_id, c.args.messages, None, c.args.sentiment_history, c.args.harassment_detected, c.args.harassment_severity, TRUE, 0)

====
